---- MODULE Spec2Model ----
(***************************************************************************)
(* A model of the joyfl execution core: the queue interpreter with its     *)
(* combinators (interpreter.py, combinators.py, library.py wrappers) and   *)
(* the library / linker / module loaders (library.py, linker.py,           *)
(* runtime.py, loader.py).                                                 *)
(*                                                                         *)
(* Conventions.                                                            *)
(*  - Every function is modelled from its own body.  Where two files of    *)
(*    the repository disagree on a call's spelling (keyword `lib` versus   *)
(*    `library`, a stack passed whole versus unpacked, the empty stack as  *)
(*    `tuple()` versus `nil`) the call is taken by role: the callee gets   *)
(*    the operation, the queue, the stack and the library.                 *)
(*  - A stack is a sequence whose LAST element is the top, so that         *)
(*    Stack(tail, head) is Append(tail, head) and nil is << >>.            *)
(*  - A value is a record tagged by its field name: [int |-> 1],           *)
(*    [bool |-> TRUE], [sym |-> "a"] (a byte-string), [str |-> "s"],       *)
(*    [list |-> << ... >>], [error |-> "JoyAssertionError"].  An Operation *)
(*    is [type, name, ptr ...]: the callable of a FUNCTION is held in      *)
(*    field fn, that of a COMBINATOR in field comb, and the program of an  *)
(*    EXECUTE in field ptr, the identity of a program object of the heap   *)
(*    (0 is None).                                                         *)
(*  - A Python exception is the string of its class name.                  *)
(***************************************************************************)
EXTENDS Integers, Sequences, FiniteSets, TLC

VARIABLES
    program,    \* interpret: the deque being drained
    stack,      \* interpret: the current stack
    validate,   \* interpret: the validate flag of this run
    op,         \* interpret: `op = program[0]`, the item of the last step
    prev,       \* the stack, queue and console the last step started from
    result,     \* interpret: "running", or how the call ended
    stdin,      \* lines the console still holds for input()
    heap,       \* program objects (Python lists), by identity
    library,    \* Runtime.library, with the program objects of its quotations
    last,       \* the last call on the runtime, how it ended, the library before it
    calls       \* the number of calls made on the runtime

ivars == <<program, stack, validate, op, prev, result, stdin, heap>>
lvars == <<library, last, calls>>
vars == <<program, stack, validate, op, prev, result, stdin, heap, library, last, calls>>

-----------------------------------------------------------------------------
(* Bounds of the model. *)

\* Arguments put on top of the initial stack.
MaxArgs == 2
\* Items waiting in the queue behind its front item.
MaxWaiting == 2
\* Lines available on the console.
MaxInput == 1
\* Calls made on one runtime.
MaxCalls == 3

-----------------------------------------------------------------------------
(* Python str values that the code takes apart (names, tokens): a sequence *)
(* of one-character strings, so that "m.dup" is <<"m", ".", "d", "u", "p">>. *)

Letters ==
    {"a", "b", "c", "d", "e", "f", "g", "h", "i", "j", "k", "l", "m",
     "n", "o", "p", "q", "r", "s", "t", "u", "v", "w", "x", "y", "z"}
Digits == {"0", "1", "2", "3", "4", "5", "6", "7", "8", "9"}
isalpha(ch) == ch \in Letters
isdigit(ch) == ch \in Digits
\* str.isdigit(): non-empty and all digits.
str_isdigit(s) == s # << >> /\ \A i \in 1..Len(s) : isdigit(s[i])
\* `ch in s`
str_contains(s, ch) == \E i \in 1..Len(s) : s[i] = ch
str_startswith(s, prefix) ==
    Len(s) >= Len(prefix) /\ SubSeq(s, 1, Len(prefix)) = prefix
\* s.split(ch, 1) of a string that contains ch.
str_split1(s, ch) ==
    LET i == CHOOSE k \in 1..Len(s) : s[k] = ch /\ \A j \in 1..(k - 1) : s[j] # ch
    IN  <<SubSeq(s, 1, i - 1), SubSeq(s, i + 1, Len(s))>>
RECURSIVE str_lstrip(_, _)
str_lstrip(s, ch) ==
    IF s # << >> /\ Head(s) = ch THEN str_lstrip(Tail(s), ch) ELSE s
\* s.replace(old, new) for a one- or two-character old and a one-character new.
RECURSIVE str_replace(_, _, _)
str_replace(s, old, new) ==
    IF Len(s) < Len(old) THEN s
    ELSE IF SubSeq(s, 1, Len(old)) = old
         THEN new \o str_replace(SubSeq(s, Len(old) + 1, Len(s)), old, new)
         ELSE <<Head(s)>> \o str_replace(Tail(s), old, new)
\* int(s) of a string of digits.
DigitValue(ch) ==
    CASE ch = "0" -> 0 [] ch = "1" -> 1 [] ch = "2" -> 2 [] ch = "3" -> 3
      [] ch = "4" -> 4 [] ch = "5" -> 5 [] ch = "6" -> 6 [] ch = "7" -> 7
      [] ch = "8" -> 8 [] ch = "9" -> 9
RECURSIVE str_int(_)
str_int(s) ==
    IF s = << >> THEN 0
    ELSE 10 * str_int(SubSeq(s, 1, Len(s) - 1)) + DigitValue(s[Len(s)])

\* The names of the model.
n_i == <<"i">>
n_dip == <<"d", "i", "p">>
n_step == <<"s", "t", "e", "p">>
n_exec_b == <<"e", "x", "e", "c", "!">>
n_struct == <<"s", "t", "r", "u", "c", "t">>
n_unstruct == <<"u", "n", "s", "t", "r", "u", "c", "t">>
n_dup == <<"d", "u", "p">>
n_first == <<"f", "i", "r", "s", "t">>
n_assert_b == <<"a", "s", "s", "e", "r", "t", "!">>
n_div == <<"d", "i", "v">>
n_index == <<"i", "n", "d", "e", "x">>
n_true == <<"t", "r", "u", "e">>
n_false == <<"f", "a", "l", "s", "e">>
s_ABORT == <<"A", "B", "O", "R", "T">>
s_BREAK == <<"B", "R", "E", "A", "K">>

\* A Python dict: a function on its keys.
dict_set(d, k, v) == [x \in DOMAIN d \cup {k} |-> IF x = k THEN v ELSE d[x]]
dict_pop(d, k) == [x \in DOMAIN d \ {k} |-> d[x]]
EmptyDict == [x \in {} |-> 0]

-----------------------------------------------------------------------------
(* Values and operations (types.py). *)

JInt(n) == [int |-> n]
JBool(b) == [bool |-> b]
JSym(s) == [sym |-> s]
JStr(s) == [str |-> s]
JList(l) == [list |-> l]
JDict(d) == [dict |-> d]
\* A float, as the ratio it stands for in lowest terms (no negative ones).
RECURSIVE Gcd(_, _)
Gcd(a, b) == IF b = 0 THEN a ELSE Gcd(b, a % b)
JFloat(p, q) == [float |-> <<p \div Gcd(p, q), q \div Gcd(p, q)>>]
JErrorValue(k) == [error |-> k]
\* An instance of the class of a struct type: its typename, the class
\* object it was made by, and the field values in declaration order.
JStruct(meta, values) == [struct |-> meta.name, cls |-> meta.id, fields |-> values]

nil == << >>
None == [none |-> TRUE]
Stack(tail, head) == Append(tail, head)

Function(name, f) == [type |-> "FUNCTION", name |-> name, fn |-> f]
Combinator(name, c) == [type |-> "COMBINATOR", name |-> name, comb |-> c]
Execute(name, p) == [type |-> "EXECUTE", name |-> name, ptr |-> p]

IsOperation(x) == "type" \in DOMAIN x
IsList(x) == "list" \in DOMAIN x
IsBool(x) == "bool" \in DOMAIN x
IsInt(x) == "int" \in DOMAIN x
IsBytes(x) == "sym" \in DOMAIN x
IsStr(x) == "str" \in DOMAIN x
IsDict(x) == "dict" \in DOMAIN x
IsStruct(x) == "struct" \in DOMAIN x
IsFloat(x) == "float" \in DOMAIN x

Reverse(s) == [i \in 1..Len(s) |-> s[Len(s) + 1 - i]]
\* The last item of a sequence, and the sequence without its last n items.
Top(s) == s[Len(s)]
Below(s, n) == SubSeq(s, 1, Len(s) - n)

\* collections.deque
\* A popleft that leaves the front item in the queue.
popleft_keeps(q) == q
popleft(q) == Tail(q)
appendleft(q, x) == <<x>> \o q
\* An extendleft that puts the items behind the waiting ones.
extendleft_behind(q, items) == q \o Reverse(items)
RECURSIVE extendleft(_, _)
extendleft(q, items) ==
    IF items = << >> THEN q
    ELSE extendleft(appendleft(q, Head(items)), Tail(items))
reversed(l) == Reverse(l)

JoyErrors ==
    {"JoyError", "JoyParseError", "JoyNameError", "JoyValueError", "JoyStackError",
     "JoyAssertionError", "JoyRuntimeError", "JoyImportError", "JoyModuleError",
     "JoyTypeMissing", "JoyTypeError"}
IsJoyError(e) == e \in JoyErrors

\* formatting.py: the stack as a list, top first; a stack that is None cannot
\* be unpacked (the caller gets a TypeError).
stack_to_list(stk) == Reverse(stk)
\* A list_to_stack that pushes the values in the order of the list.
list_to_stack_forward(values) == values
list_to_stack(values) == Reverse(values)

-----------------------------------------------------------------------------
(* Native operators (operators.py) and their wrappers (library.py). *)

\* bool(x) of a Python value.
Truthy(v) ==
    IF IsBool(v) THEN v.bool
    ELSE IF IsInt(v) THEN v.int # 0
    ELSE IF IsFloat(v) THEN v.float[1] # 0
    ELSE IF IsList(v) THEN Len(v.list) > 0
    ELSE TRUE

\* ord() of the first byte of the symbols of the model.
FirstByte(s) == CASE s[1] = "A" -> 65 [] s[1] = "B" -> 66 [] s[1] = "a" -> 97

\* get_stack_effects: arity, valency and the input types, top first.
StackEffects(f) ==
    CASE f = "op_dup" -> [arity |-> 1, valency |-> 2, inputs |-> <<"Any">>]
      [] f = "op_first" -> [arity |-> 1, valency |-> 1, inputs |-> <<"list">>]
      [] f = "op_swap" -> [arity |-> 2, valency |-> 2, inputs |-> <<"Any", "Any">>]
      [] f = "op_pop" -> [arity |-> 1, valency |-> 0, inputs |-> <<"Any">>]
      [] f = "op_dict_new" -> [arity |-> 0, valency |-> 1, inputs |-> << >>]
      [] f = "op_dict_store" ->
             [arity |-> 3, valency |-> 1, inputs |-> <<"Any", "bytes", "dict">>]
      [] f = "op_assert_b" -> [arity |-> 1, valency |-> 0, inputs |-> <<"bool">>]
      [] f = "op_div" -> [arity |-> 2, valency |-> 1, inputs |-> <<"num", "num">>]
      [] f = "op_index" -> [arity |-> 2, valency |-> 1, inputs |-> <<"list", "int">>]
      [] f \in {"good_op", "bad_op", "noisy_op"} ->
             [arity |-> 2, valency |-> 2, inputs |-> <<"int", "int">>]

isinstance(v, t) ==
    CASE t = "Any" -> TRUE
      [] t = "list" -> IsList(v)
      [] t = "bool" -> IsBool(v)
      [] t = "int" -> IsInt(v) \/ IsBool(v)
      [] t = "num" -> IsInt(v) \/ IsBool(v) \/ IsFloat(v)
      [] t = "str" -> IsStr(v)
      [] t = "bytes" -> IsBytes(v)
      [] t = "dict" -> IsDict(v)
      [] t = "object" -> TRUE

Returned(res) == [exc |-> "", res |-> res]
Raised(e) == [exc |-> e, res |-> << >>]

\* The Python callables; a result is the tuple of the values returned (one
\* value for valency 1, none for None).
\* An op_dup that returns its argument once.
op_dup_once(x) == Returned(<<x>>)
op_dup(x) == Returned(<<x, x>>)
\* An op_swap that returns (b, a).
op_swap_keeps(b, a) == Returned(<<b, a>>)
op_swap(b, a) == Returned(<<a, b>>)
op_pop(x) == Returned(<< >>)
op_dict_new == Returned(<<JDict(EmptyDict)>>)
\* d.__setitem__(k, v) or d: an int or bytes d has no __setitem__, a dict
\* key is not hashable.
op_dict_store(d, k, v) ==
    IF ~IsDict(d) THEN Raised("AttributeError")
    ELSE IF IsDict(k) \/ IsList(k) THEN Raised("TypeError")
    ELSE Returned(<<JDict(dict_set(d.dict, k, v))>>)
op_first(x) ==
    IF IsList(x) THEN
        IF Len(x.list) = 0 THEN Raised("IndexError") ELSE Returned(<<x.list[1]>>)
    ELSE IF IsBytes(x) THEN Returned(<<JInt(FirstByte(x.sym))>>)
    ELSE IF IsStr(x) THEN Returned(<<x>>)
    ELSE Raised("TypeError")
\* A number as a ratio, and int() of it.
Ratio(v) ==
    IF IsFloat(v) THEN v.float
    ELSE IF IsBool(v) THEN <<IF v.bool THEN 1 ELSE 0, 1>>
    ELSE <<v.int, 1>>
IsNumber(v) == IsInt(v) \/ IsBool(v) \/ IsFloat(v)
\* b / a: true division, a float.
op_div(b, a) ==
    IF ~IsNumber(b) \/ ~IsNumber(a) THEN Raised("TypeError")
    ELSE IF Ratio(a)[1] = 0 THEN Raised("ZeroDivisionError")
    ELSE Returned(<<JFloat(Ratio(b)[1] * Ratio(a)[2], Ratio(b)[2] * Ratio(a)[1])>>)
\* a[int(b)]
op_index(b, a) ==
    IF IsStr(b) \/ IsBytes(b) THEN Raised("ValueError")
    ELSE IF ~IsNumber(b) THEN Raised("TypeError")
    ELSE LET k == Ratio(b)[1] \div Ratio(b)[2]
         IN  IF IsList(a) THEN
                 IF k < Len(a.list) THEN Returned(<<a.list[k + 1]>>) ELSE Raised("IndexError")
             ELSE IF IsStr(a) THEN
                 IF k < Len(a.str) THEN Returned(<<JStr(<<a.str[k + 1]>>)>>)
                 ELSE Raised("IndexError")
             ELSE IF IsBytes(a) THEN
                 IF k < Len(a.sym) THEN Returned(<<JInt(FirstByte(<<a.sym[k + 1]>>))>>)
                 ELSE Raised("IndexError")
             ELSE Raised("TypeError")
\* Functions declared `(a: int, b: int) -> tuple[int, int]` that return two,
\* one and three values.
good_op(a, b) == Returned(<<JInt(Ratio(a)[1] + Ratio(b)[1]), JInt(Ratio(a)[1] * Ratio(b)[1])>>)
bad_op(a, b) == Returned(<<JInt(Ratio(a)[1] + Ratio(b)[1])>>)
noisy_op(a, b) == Returned(<<a, b, JInt(Ratio(a)[1] + Ratio(b)[1])>>)
op_assert_b(x) == IF ~Truthy(x) THEN Raised("JoyAssertionError") ELSE Returned(<< >>)

native(f, args) ==
    CASE f = "op_dup" -> op_dup(args[1])
      [] f = "op_first" -> op_first(args[1])
      [] f = "op_swap" -> op_swap(args[1], args[2])
      [] f = "op_pop" -> op_pop(args[1])
      [] f = "op_dict_new" -> op_dict_new
      [] f = "op_dict_store" -> op_dict_store(args[1], args[2], args[3])
      [] f = "op_assert_b" -> op_assert_b(args[1])
      [] f = "op_div" -> op_div(args[1], args[2])
      [] f = "op_index" -> op_index(args[1], args[2])
      [] f = "good_op" -> IF \A i \in 1..2 : IsNumber(args[i]) THEN good_op(args[1], args[2])
                          ELSE Raised("TypeError")
      [] f = "bad_op" -> IF \A i \in 1..2 : IsNumber(args[i]) THEN bad_op(args[1], args[2])
                         ELSE Raised("TypeError")
      [] f = "noisy_op" -> IF \A i \in 1..2 : IsNumber(args[i]) THEN noisy_op(args[1], args[2])
                           ELSE Raised("TypeError")

\* A step's outcome: the new stack and queue, or the exception raised, or
\* SystemExit.
Ok(stk, q, inp) == [kind |-> "ok", stack |-> stk, program |-> q, stdin |-> inp, exc |-> ""]
Raise(e, stk, q, inp) == [kind |-> "raise", stack |-> stk, program |-> q, stdin |-> inp, exc |-> e]
Exit(stk, q, inp) == [kind |-> "exit", stack |-> stk, program |-> q, stdin |-> inp, exc |-> "SystemExit"]

\* _make_wrapper's push, by valency.
RECURSIVE pushAll(_, _)
pushAll(base, res) ==
    IF res = << >> THEN base ELSE pushAll(Stack(base, Head(res)), Tail(res))
push(valency, base, res) ==
    CASE valency = 0 -> base
      [] valency = 1 -> Stack(base, res[1])
      [] OTHER -> pushAll(base, res)

\* A wrapper that hands the popped values over top first.
wrapper_top_first(f, stk) ==
    LET meta == StackEffects(f)
        n == meta.arity
    IN  IF Len(stk) < n THEN [exc |-> "ValueError", stack |-> stk]
        ELSE LET base == SubSeq(stk, 1, Len(stk) - n)
                 args == [i \in 1..n |-> stk[Len(stk) + 1 - i]]
                 r == native(f, args)
             IN  IF r.exc # "" THEN [exc |-> r.exc, stack |-> stk]
                 ELSE [exc |-> "", stack |-> push(meta.valency, base, r.res)]

\* _make_wrapper's w_0 .. w_x: pop `arity` values (an empty stack does not
\* unpack), call, push.
wrapper(f, stk) ==
    LET meta == StackEffects(f)
        n == meta.arity
    IN  IF Len(stk) < n THEN [exc |-> "ValueError", stack |-> stk]
        ELSE LET base == SubSeq(stk, 1, Len(stk) - n)
                 args == SubSeq(stk, Len(stk) - n + 1, Len(stk))
                 r == native(f, args)
             IN  IF r.exc # "" THEN [exc |-> r.exc, stack |-> stk]
                 ELSE [exc |-> "", stack |-> push(meta.valency, base, r.res)]

-----------------------------------------------------------------------------
(* Combinators (combinators.py).  Each gets the operation, the queue after *)
(* the interpreter's popleft, the stack, the library and the console.      *)

\* A comb_i that leaves out `reversed`.
comb_i_unreversed(this, queue, stk, inp) ==
    IF stk = nil THEN Raise("JoyStackError", stk, queue, inp)
    ELSE LET tail == SubSeq(stk, 1, Len(stk) - 1)
             head == stk[Len(stk)]
         IN  IF ~IsList(head) THEN Raise("JoyStackError", stk, queue, inp)
             ELSE Ok(tail, extendleft(queue, head.list), inp)

comb_i(this, queue, stk, inp) ==
    IF stk = nil THEN Raise("JoyStackError", stk, queue, inp)
    ELSE LET tail == SubSeq(stk, 1, Len(stk) - 1)
             head == stk[Len(stk)]
         IN  IF ~IsList(head) THEN Raise("JoyStackError", stk, queue, inp)
             ELSE Ok(tail, extendleft(queue, reversed(head.list)), inp)

comb_dip(this, queue, stk, inp) ==
    IF Len(stk) < 2 THEN Raise("JoyStackError", stk, queue, inp)
    ELSE LET base == SubSeq(stk, 1, Len(stk) - 1)
             quotation == stk[Len(stk)]
         IN  IF ~IsList(quotation) THEN Raise("JoyStackError", stk, queue, inp)
             ELSE LET tail == SubSeq(base, 1, Len(base) - 1)
                      item == base[Len(base)]
                  IN  Ok(tail,
                         extendleft(appendleft(queue, item), reversed(quotation.list)),
                         inp)

comb_step(this, queue, stk, inp) ==
    IF Len(stk) < 2 THEN Raise("JoyStackError", stk, queue, inp)
    ELSE LET prg == stk[Len(stk)]
             values == stk[Len(stk) - 1]
             tail == SubSeq(stk, 1, Len(stk) - 2)
         IN  IF ~IsList(values) THEN Raise("JoyStackError", stk, queue, inp)
             ELSE IF ~IsList(prg) THEN Raise("JoyStackError", stk, queue, inp)
             ELSE IF Len(values.list) = 0 THEN Ok(tail, queue, inp)
             ELSE Ok(tail,
                     extendleft(queue,
                         reversed(<<values.list[1]>> \o prg.list
                                  \o <<JList(Tail(values.list)), prg, this>>)),
                     inp)

\* types.py's TYPE_NAME_MAP (the entries the model's fields name).
TYPE_NAME_MAP ==
    (<<"i", "n", "t">> :> "int") @@ (<<"b", "o", "o", "l">> :> "bool")
      @@ (<<"s", "t", "r">> :> "str") @@ (<<"l", "i", "s", "t">> :> "list")
      @@ (<<"s", "y", "m", "b", "o", "l">> :> "bytes") @@ (<<"a", "n", "y">> :> "Any")
      @@ (<< >> :> "Any")
\* str.lower(), for the capitals the model's names have.
str_lower(s) ==
    [i \in 1..Len(s) |-> CASE s[i] = "I" -> "i" [] s[i] = "B" -> "b" [] OTHER -> s[i]]

\* A field of a TYPEDEF: its label, its type name (empty for none) and
\* whether it is a quotation with a stack effect.
Field(label, type, quote) == [label |-> label, type |-> type, quote |-> quote]
_get_expected_python_type_for_field(field) ==
    IF field.quote THEN "list"
    ELSE LET type_name == str_lower(field.type)
         IN  IF type_name \in DOMAIN TYPE_NAME_MAP THEN TYPE_NAME_MAP[type_name]
             ELSE "object"

\* comb_struct's loop over reversed(meta.fields): pop a value for each
\* field, top first, and check its type; `fields` collects the values.
\* A struct_pop that collects the values in front of the earlier ones.
RECURSIVE struct_pop_prepends(_, _, _)
struct_pop_prepends(rfields, current, fields) ==
    IF rfields = << >> THEN [exc |-> "", current |-> current, fields |-> fields]
    ELSE IF current = nil THEN [exc |-> "JoyStackError", current |-> current, fields |-> fields]
    ELSE LET value == Top(current)
             expected == _get_expected_python_type_for_field(Head(rfields))
         IN  IF expected \notin {"object", "Any"} /\ ~isinstance(value, expected)
             THEN [exc |-> "JoyStackError", current |-> current, fields |-> fields]
             ELSE struct_pop_prepends(Tail(rfields), Below(current, 1), <<value>> \o fields)
RECURSIVE struct_pop(_, _, _)
struct_pop(rfields, current, fields) ==
    IF rfields = << >> THEN [exc |-> "", current |-> current, fields |-> fields]
    ELSE IF current = nil THEN [exc |-> "JoyStackError", current |-> current, fields |-> fields]
    ELSE LET value == Top(current)
             expected == _get_expected_python_type_for_field(Head(rfields))
         IN  IF expected \notin {"object", "Any"} /\ ~isinstance(value, expected)
             THEN [exc |-> "JoyStackError", current |-> current, fields |-> fields]
             ELSE struct_pop(Tail(rfields), Below(current, 1), Append(fields, value))

comb_struct(this, queue, stk, lib, inp) ==
    IF stk = nil THEN Raise("JoyStackError", stk, queue, inp)
    ELSE LET base == Below(stk, 1)
             type_symbol == Top(stk)
         IN  IF ~IsBytes(type_symbol) THEN Raise("JoyStackError", stk, queue, inp)
             ELSE IF type_symbol.sym \notin DOMAIN lib.struct_types
             THEN Raise("JoyNameError", stk, queue, inp)
             ELSE LET meta == lib.struct_types[type_symbol.sym]
                      made(popped) ==
                          IF popped.exc # "" THEN Raise(popped.exc, stk, queue, inp)
                          ELSE Ok(Stack(popped.current, JStruct(meta, reversed(popped.fields))),
                                  queue, inp)
                  IN  made(struct_pop(reversed(meta.fields), base, << >>))

comb_unstruct(this, queue, stk, lib, inp) ==
    IF stk = nil THEN Raise("JoyStackError", stk, queue, inp)
    ELSE LET base == Below(stk, 1)
             top == Top(stk)
         IN  IF ~IsStruct(top) THEN Raise("JoyStackError", stk, queue, inp)
             ELSE IF top.struct \notin DOMAIN lib.struct_types
             THEN Raise("JoyNameError", stk, queue, inp)
             ELSE IF Len(top.fields) # lib.struct_types[top.struct].arity
             THEN Raise("JoyStackError", stk, queue, inp)
             ELSE Ok(pushAll(base, top.fields), queue, inp)

RECURSIVE interpret(_, _, _, _, _)

\* exec!: the nested run is on a fresh stack with validate=True; only a
\* JoyError is caught; a run that returned None has no stack to list.
comb_exec_b(this, queue, stk, lib, inp) ==
    IF stk = nil THEN Raise("JoyStackError", stk, queue, inp)
    ELSE LET tail == SubSeq(stk, 1, Len(stk) - 1)
             head == stk[Len(stk)]
         IN  IF ~IsList(head) THEN Raise("JoyStackError", stk, queue, inp)
             ELSE LET pushed(run) ==
                          CASE run.kind = "stack" ->
                             Ok(Stack(Stack(tail, JList(stack_to_list(run.stack))), JBool(TRUE)),
                                queue, run.stdin)
                        [] run.kind = "none" ->
                             Raise("TypeError", stk, queue, run.stdin)
                        [] run.kind = "raise" /\ IsJoyError(run.exc) ->
                             Ok(Stack(Stack(tail, JErrorValue(run.exc)), JBool(FALSE)),
                                queue, run.stdin)
                        [] run.kind = "raise" /\ ~IsJoyError(run.exc) ->
                             Raise(run.exc, stk, queue, run.stdin)
                        [] run.kind = "exit" ->
                             Exit(stk, queue, run.stdin)
                  IN  pushed(interpret(lib, head.list, nil, TRUE, inp))

-----------------------------------------------------------------------------
(* The interpreter (interpreter.py). *)

IsZero(v) == IsNumber(v) /\ Ratio(v)[1] = 0

\* can_execute's verdict (its message is not modelled).
can_execute(o, stk) ==
    IF o.type = "COMBINATOR" /\ o.name \in {n_i, n_dip} THEN
        IF stk = nil THEN FALSE
        ELSE IsList(stk[Len(stk)])
    ELSE IF o.name \in {n_div, <<"/">>} /\ stk # nil /\ IsZero(stk[Len(stk)]) THEN FALSE
    ELSE IF o.type # "FUNCTION" THEN TRUE
    ELSE LET inputs == StackEffects(o.fn).inputs
             items == stack_to_list(stk)
         IN  IF Len(items) < Len(inputs) THEN FALSE
             ELSE IF \E i \in 1..Len(inputs) : ~isinstance(items[i], inputs[i]) THEN FALSE
             ELSE IF /\ o.name = n_index /\ Len(items) >= 2
                     /\ (IsList(items[1]) \/ IsStr(items[1]))
                     /\ (IsInt(items[2]) \/ IsBool(items[2])) THEN
                 Ratio(items[2])[1] < (IF IsList(items[1]) THEN Len(items[1].list)
                                       ELSE Len(items[1].str))
             ELSE TRUE

interpret_step(lib, prg, stk, inp) ==
    LET o == Head(prg)
        q == popleft(prg)
        sentinel == IsBytes(o) /\ o.sym \in {s_ABORT, s_BREAK}
    IN  IF sentinel /\ o.sym = s_ABORT THEN Exit(stk, q, inp)
        ELSE IF sentinel /\ o.sym = s_BREAK /\ inp = 0 THEN Raise("EOFError", stk, q, inp)
        ELSE LET inp2 == IF sentinel THEN inp - 1 ELSE inp
             IN  IF ~IsOperation(o) THEN Ok(Stack(stk, o), q, inp2)
                 ELSE CASE o.type = "FUNCTION" ->
                             LET called(w) ==
                                     IF w.exc # "" THEN Raise(w.exc, stk, q, inp2)
                                     ELSE Ok(w.stack, q, inp2)
                             IN  called(wrapper(o.fn, stk))
                        [] o.type = "COMBINATOR" ->
                             (CASE o.comb = "comb_i" -> comb_i(o, q, stk, inp2)
                                [] o.comb = "comb_dip" -> comb_dip(o, q, stk, inp2)
                                [] o.comb = "comb_step" -> comb_step(o, q, stk, inp2)
                                [] o.comb = "comb_exec_b" -> comb_exec_b(o, q, stk, lib, inp2)
                                [] o.comb = "comb_struct" -> comb_struct(o, q, stk, lib, inp2)
                                [] o.comb = "comb_unstruct" ->
                                     comb_unstruct(o, q, stk, lib, inp2))
                        [] o.type = "EXECUTE" ->
                             IF o.ptr = 0 THEN Raise("TypeError", stk, q, inp2)
                             ELSE Ok(stk, extendleft(q, reversed(lib.heap[o.ptr])), inp2)

\* One turn of interpret's loop on a non-empty queue: "break" (validation
\* refused the front operation), "continue", "none" (an exception was caught
\* and the call returns None) or "exit" (SystemExit passes through).
interpret_iter(lib, prg, stk, val, inp) ==
    IF val /\ IsOperation(Head(prg)) /\ ~can_execute(Head(prg), stk) THEN
        [kind |-> "break", stack |-> stk, program |-> prg, stdin |-> inp]
    ELSE LET caught(r) ==
                 CASE r.kind = "ok" ->
                    [kind |-> "continue", stack |-> r.stack, program |-> r.program, stdin |-> r.stdin]
               [] r.kind = "raise" ->
                    [kind |-> "none", stack |-> stk, program |-> r.program, stdin |-> r.stdin]
               [] r.kind = "exit" ->
                    [kind |-> "exit", stack |-> stk, program |-> r.program, stdin |-> r.stdin]
         IN  caught(interpret_step(lib, prg, stk, inp))

\* interpret: what the call returns: a stack, None, or SystemExit.
interpret(lib, prg, stk, val, inp) ==
    IF prg = << >> THEN [kind |-> "stack", stack |-> stk, stdin |-> inp, exc |-> ""]
    ELSE LET loop(it) ==
                 CASE it.kind = "continue" -> interpret(lib, it.program, it.stack, val, it.stdin)
               [] it.kind = "break" -> [kind |-> "stack", stack |-> stk, stdin |-> inp, exc |-> ""]
               [] it.kind = "none" -> [kind |-> "none", stack |-> nil, stdin |-> it.stdin, exc |-> ""]
               [] it.kind = "exit" -> [kind |-> "exit", stack |-> nil, stdin |-> it.stdin, exc |-> "SystemExit"]
         IN  loop(interpret_iter(lib, prg, stk, val, inp))

-----------------------------------------------------------------------------
(* The files on the module search path.                                    *)

Dot(ns, name) == ns \o <<".">> \o name

\* A Python function of a module: its __name__, the callable, and whether
\* it declares a return annotation and annotates its parameters.
PyDup == [name |-> <<"o", "p", "_">> \o n_dup, fn |-> "op_dup", returns |-> TRUE, params |-> TRUE]
PyFirst ==
    [name |-> <<"o", "p", "_">> \o n_first, fn |-> "op_first", returns |-> TRUE, params |-> TRUE]
\* `def quadruple(x): ...`, `def f(x) -> Any: ...` and `def f(x: Any): ...`
PyBare == [PyDup EXCEPT !.returns = FALSE, !.params = FALSE]
PyNoParams == [PyFirst EXCEPT !.params = FALSE]
PyNoReturn == [PyDup EXCEPT !.returns = FALSE]

ns_m == <<"m">>
ns_j == <<"j">>
ns_b == <<"b">>
ns_t == <<"t">>
ns_r == <<"r">>
ns_u == <<"u">>
ns_v == <<"v">>
ns_w == <<"w">>
ns_x == <<"x">>
ns_y == <<"y">>
n_h == <<"h">>
n_a == <<"a">>
n_p == <<"p">>
n_q == <<"q">>
n_g == <<"g">>
n_z == <<"z">>
n_ping == <<"p", "i", "n", "g">>
n_pong == <<"p", "o", "n", "g">>
n_loop == <<"l", "o", "o", "p">>
n_size == <<"s", "i", "z", "e">>
n_length == <<"l", "e", "n", "g", "t", "h">>

\* Native modules: m.py and b.py, each with its __operators__.
\* e.py has no __operators__, g.py has a tuple for it.
ns_e == <<"e">>
ns_g == <<"g">>
\* c.py registers op_dup and an op_first without parameter annotations,
\* d.py registers op_dup and a function named quadruple.
ns_c == <<"c">>
ns_d == <<"d">>
PyQuadruple == [PyDup EXCEPT !.name = <<"q", "u", "a", "d", "r", "u", "p", "l", "e">>]
PyFiles ==
    (ns_m :> [registry |-> "list", operators |-> <<PyDup, PyFirst>>])
      @@ (ns_b :> [registry |-> "list", operators |-> <<PyDup>>])
      @@ (ns_e :> [registry |-> "missing", operators |-> << >>])
      @@ (ns_g :> [registry |-> "tuple", operators |-> <<PyDup>>])
      @@ (ns_c :> [registry |-> "list", operators |-> <<PyDup, PyNoParams>>])
      @@ (ns_d :> [registry |-> "list", operators |-> <<PyDup, PyQuadruple>>])

\* A parsed definition, library block and free-standing term (parser.py's
\* output, with the source positions left out).
Definition(key, tokens) == [key |-> key, tokens |-> tokens]
LibraryItem(module, private, public) ==
    [typ |-> "library", module |-> module, private |-> private, public |-> public,
     types |-> << >>]
\* A TYPEDEF of a library block, and a block of TYPEDEFs.
Product(typename, fields) == [typename |-> typename, kind |-> "product", fields |-> fields]
QuotationType(typename, effect) ==
    [typename |-> typename, kind |-> "quotation", effect |-> effect]
TypesItem(module, types) == [LibraryItem(module, << >>, << >>) EXCEPT !.types = types]
TermItem(tokens) == [typ |-> "term", tokens |-> tokens]

\* `MODULE ns PUBLIC p == 2 dup ; END.`
ModuleP(ns) == LibraryItem(ns, << >>, <<Definition(n_p, <<<<"2">>, n_dup>>)>>)
\* Joy modules: j.joy and b.joy.
JoyFiles == (ns_j :> <<ModuleP(ns_j)>>) @@ (ns_b :> <<ModuleP(ns_b)>>)

-----------------------------------------------------------------------------
(* The library (library.py) and the native loader (loader.py, runtime.py). *)
(* A Library object is a view: the sequence of its quotation layers, local *)
(* first and root last (with_overlay's ChainMap); all views share the      *)
(* other tables.  The tables, the layers, the program objects, the module  *)
(* cache of loader.py and the counts of what the loaders did are the       *)
(* fields of one record L.                                                 *)

\* A call's outcome: the library it left, the exception raised ("" is none)
\* and the value returned.
Done(L, val) == [exc |-> "", lib |-> L, val |-> val]
Fail(L, e) == [exc |-> e, lib |-> L, val |-> None]

\* History: how many times `key` happened.
Count(L, key) == IF key \in DOMAIN L.count THEN L.count[key] ELSE 0
Bump(L, key) == [L EXCEPT !.count = dict_set(L.count, key, Count(L, key) + 1)]

Quotation(prg, visibility, module) ==
    [program |-> prg, visibility |-> visibility, module |-> module, type |-> None]

\* load_builtins_library's tables.
combinators ==
    (n_i :> "comb_i") @@ (n_dip :> "comb_dip") @@ (n_step :> "comb_step")
      @@ (n_exec_b :> "comb_exec_b") @@ (n_struct :> "comb_struct")
      @@ (n_unstruct :> "comb_unstruct")
constants == (n_true :> JBool(TRUE)) @@ (n_false :> JBool(FALSE))
aliases == (n_size :> n_length)
aliases_get(name) == IF name \in DOMAIN aliases THEN aliases[name] ELSE name

\* The runtime after Runtime(): the library of load_builtins_library.
Builtins ==
    [functions |-> (n_dup :> "op_dup") @@ (n_first :> "op_first")
                     @@ (n_assert_b :> "op_assert_b"),
     factories |-> EmptyDict,
     layers |-> <<EmptyDict>>,
     loaded_modules |-> {},
     struct_types |-> EmptyDict,
     classes |-> 0,
     heap |-> << >>,
     lib_modules |-> {},
     count |-> EmptyDict]

is_module_name(x) ==
    /\ x # << >>
    /\ isalpha(x[1])
    /\ \A i \in 2..Len(x) : isalpha(x[i]) \/ isdigit(x[i])

\* An add_function that stores the function before its annotations are read.
add_function_stores_first(L, name, fn) ==
    IF ~fn.returns \/ ~fn.params
    THEN Fail([L EXCEPT !.functions = dict_set(L.functions, name, fn.fn)], "JoyTypeMissing")
    ELSE Done([Bump(L, <<"add_function", name>>)
                  EXCEPT !.functions = dict_set(L.functions, name, fn.fn)], None)

\* _make_wrapper calls get_stack_effects, which refuses a function without
\* a return annotation, then one with a parameter that is not annotated.
add_function(L, name, fn) ==
    IF ~fn.returns THEN Fail(L, "JoyTypeMissing")
    ELSE IF ~fn.params THEN Fail(L, "JoyTypeMissing")
    ELSE Done([Bump(L, <<"add_function", name>>)
                  EXCEPT !.functions = dict_set(L.functions, name, fn.fn)], None)

get_python_name(joy_name) ==
    <<"o", "p", "_">>
        \o str_replace(
               str_replace(
                   str_replace(joy_name, <<"-">>, <<"_">>),
                   <<"!">>, <<"_", "b">>),
               <<"?">>, <<"_", "q">>)

get_joy_name(py_name) ==
    IF ~str_startswith(py_name, <<"o", "p", "_">>) THEN [exc |-> "JoyModuleError", val |-> << >>]
    ELSE [exc |-> "",
          val |-> str_replace(
                      str_replace(
                          str_replace(SubSeq(py_name, 4, Len(py_name)), <<"_", "b">>, <<"!">>),
                          <<"_", "q">>, <<"?">>),
                      <<"_">>, <<"-">>)]

\* A mark_module_loaded that forgets the namespace.
mark_module_loaded_forgets(L, ns) == L
mark_module_loaded(L, ns) == [L EXCEPT !.loaded_modules = @ \cup {ns}]

\* The module object is its namespace: cached, or imported from its file.
load_library_module(L, ns) ==
    IF ns \in L.lib_modules THEN Done(L, ns)
    ELSE IF ns \in DOMAIN PyFiles
         THEN Done([Bump(L, <<"exec_module", ns>>) EXCEPT !.lib_modules = @ \cup {ns}], ns)
         ELSE Fail(L, "JoyModuleError")

\* _py_loader's loop over iter_module_operators: operator k is named and
\* registered before operator k+1 is looked at.
RECURSIVE py_loader_from(_, _, _, _)
py_loader_from(L, ns, operators, k) ==
    IF k > Len(operators) THEN Done(mark_module_loaded(L, ns), None)
    ELSE IF operators[k].name = << >> THEN py_loader_from(L, ns, operators, k + 1)
    ELSE LET named(joy_name) ==
                 IF joy_name.exc # "" THEN Fail(L, joy_name.exc)
                 ELSE LET added(r) ==
                              IF r.exc # "" THEN r
                              ELSE py_loader_from(r.lib, ns, operators, k + 1)
                      IN  added(add_function(L, Dot(ns, joy_name.val), operators[k]))
         IN  named(get_joy_name(operators[k].name))

\* A _py_loader that iterates whatever __operators__ is, nothing if missing.
_py_loader_unchecked(L, ns) ==
    LET imported(module) ==
            IF module.exc # "" THEN module
            ELSE py_loader_from(module.lib, ns, PyFiles[ns].operators, 1)
    IN  imported(load_library_module(Bump(L, <<"_py_loader", ns>>), ns))

\* iter_module_operators imports the module and refuses one whose
\* __operators__ is missing or is no list, before any operator is yielded.
_py_loader(L, ns) ==
    LET imported(module) ==
            IF module.exc # "" THEN module
            ELSE IF PyFiles[ns].registry # "list" THEN Fail(module.lib, "JoyModuleError")
            ELSE py_loader_from(module.lib, ns, PyFiles[ns].operators, 1)
    IN  imported(load_library_module(Bump(L, <<"_py_loader", ns>>), ns))

\* A _maybe_load_py_module that does not look at the loaded marker.
_maybe_load_py_module_again(L, resolved_name) ==
    IF ~str_contains(resolved_name, ".") THEN Done(L, None)
    ELSE LET ns == str_split1(resolved_name, ".")[1]
         IN  IF is_module_name(ns) THEN _py_loader(L, ns)
             ELSE Done(L, None)

_maybe_load_py_module(L, resolved_name) ==
    IF ~str_contains(resolved_name, ".") THEN Done(L, None)
    ELSE LET ns == str_split1(resolved_name, ".")[1]
         IN  IF is_module_name(ns) /\ ns \notin L.loaded_modules THEN _py_loader(L, ns)
             ELSE Done(L, None)

get_function(L, name) ==
    LET resolved_name == aliases_get(name)
        loaded(r) ==
            IF r.exc # "" THEN r
            ELSE IF resolved_name \in DOMAIN r.lib.functions
                 THEN Done(r.lib, r.lib.functions[resolved_name])
                 ELSE Fail(r.lib, "JoyNameError")
    IN  loaded(_maybe_load_py_module(L, resolved_name))

get_factory(L, name, strict) ==
    LET resolved_name == aliases_get(name)
        loaded(r) ==
            IF r.exc # "" THEN r
            ELSE IF resolved_name \in DOMAIN r.lib.factories
                 THEN Done(r.lib, r.lib.factories[resolved_name])
                 ELSE IF strict THEN Fail(r.lib, "JoyNameError")
                 ELSE Done(r.lib, None)
    IN  loaded(_maybe_load_py_module(L, resolved_name))

\* A registered factory, and the object its n-th call makes.
Factory(name) == [factory |-> name]
JObject(name, n) == [object |-> name, serial |-> n]

\* A factory that hands out the object of its first call again.
factory_call_cached(L, factory) ==
    IF Count(L, <<"factory", factory.factory>>) >= 1
    THEN Done(L, JObject(factory.factory, 1))
    ELSE LET called(L2) == Done(L2, JObject(factory.factory, 1))
         IN  called(Bump(L, <<"factory", factory.factory>>))

\* factory(): every call makes a new object.
factory_call(L, factory) ==
    LET called(L2) ==
            Done(L2, JObject(factory.factory, Count(L2, <<"factory", factory.factory>>)))
    IN  called(Bump(L, <<"factory", factory.factory>>))

\* ChainMap: membership and lookup search the layers in order; writes and
\* pop go to the first layer.
chain_has(L, view, key) == \E i \in 1..Len(view) : key \in DOMAIN L.layers[view[i]]
chain_layer(L, view, key) ==
    view[CHOOSE i \in 1..Len(view) :
            /\ key \in DOMAIN L.layers[view[i]]
            /\ \A j \in 1..(i - 1) : key \notin DOMAIN L.layers[view[j]]]
chain_get(L, view, key) == L.layers[chain_layer(L, view, key)][key]
\* A write that goes to the parent's table.
chain_set_parent(L, view, key, quot) ==
    [L EXCEPT !.layers[view[Len(view)]] = dict_set(@, key, quot)]
chain_set(L, view, key, quot) == [L EXCEPT !.layers[view[1]] = dict_set(@, key, quot)]
chain_pop(L, view, key) == [L EXCEPT !.layers[view[1]] = dict_pop(@, key)]

\* with_overlay: a new view with a fresh local layer over this one.
with_overlay(L, view) ==
    [lib |-> [L EXCEPT !.layers = Append(@, EmptyDict)],
     view |-> <<Len(L.layers) + 1>> \o view]

-----------------------------------------------------------------------------
(* The linker (linker.py) and the Joy loader (runtime.py).                 *)

RECURSIVE _joy_loader(_, _, _)

get_quotation(L, view, name) ==
    LET resolved_name == aliases_get(name)
        ns == str_split1(resolved_name, ".")[1]
        found(r) ==
            IF r.exc # "" THEN r
            ELSE IF chain_has(r.lib, view, resolved_name)
                    /\ chain_get(r.lib, view, resolved_name).visibility # "private"
                 THEN Done(r.lib, chain_get(r.lib, view, resolved_name))
                 ELSE Done(r.lib, None)
    IN  IF str_contains(resolved_name, ".") /\ ns # << >> /\ is_module_name(ns)
           /\ ns \notin L.loaded_modules
        THEN found(_joy_loader(L, view, ns))
        ELSE found(Done(L, None))

\* link_body's loop from token k on: `open` holds the outputs of the open
\* brackets, `output` the list being built.  A token is resolved by the
\* first rule that matches.  (No token of the model is a rational or a
\* float; those two rules are left out.)
RECURSIVE link_tokens(_, _, _, _, _, _)
link_tokens(L, view, tokens, k, open, output) ==
    IF k > Len(tokens) THEN
        IF open # << >> THEN Fail(L, "AssertionError") ELSE Done(L, output)
    ELSE
    LET token == str_lstrip(tokens[k], ":")
        next(L2, item) == link_tokens(L2, view, tokens, k + 1, open, Append(output, item))
        by_function(fn) ==
            IF fn.exc # "" THEN fn ELSE next(fn.lib, Function(token, fn.val))
        by_literal(L2) ==
            IF str_startswith(token, <<"\"">>) /\ token[Len(token)] = "\"" THEN
                next(L2, JStr(SubSeq(token, 2, Len(token) - 1)))
            ELSE IF str_startswith(token, <<"'">>) THEN next(L2, JSym(Tail(token)))
            ELSE IF str_isdigit(token) THEN next(L2, JInt(str_int(token)))
            ELSE IF token[1] = "-" /\ str_isdigit(Tail(token)) THEN
                next(L2, JInt(0 - str_int(Tail(token))))
            ELSE by_function(get_function(L2, token))
        by_quotation(q) ==
            IF q.exc # "" THEN q
            ELSE IF q.val # None THEN next(q.lib, Execute(token, q.val.program))
            ELSE by_literal(q.lib)
        by_factory(factory) ==
            IF factory.exc # "" THEN factory
            ELSE IF factory.val # None THEN
                LET made(r) == next(r.lib, r.val)
                IN  made(factory_call(factory.lib, factory.val))
            ELSE by_quotation(get_quotation(factory.lib, view, token))
    IN  IF token = <<"[">> THEN
            link_tokens(L, view, tokens, k + 1, Append(open, output), << >>)
        ELSE IF token = <<"]">> THEN
            IF open = << >> THEN Fail(L, "IndexError")
            ELSE link_tokens(L, view, tokens, k + 1, Below(open, 1),
                             Append(Top(open), JList(output)))
        ELSE IF token \in DOMAIN combinators THEN
            next(L, Combinator(token, combinators[token]))
        ELSE IF token \in DOMAIN constants THEN next(L, constants[token])
        ELSE by_factory(get_factory(L, str_lstrip(token, "@"),
                                    str_startswith(token, <<"@">>)))

link_body(L, view, tokens) == link_tokens(L, view, tokens, 1, << >>, << >>)

\* _fill_recursive_calls: an operation whose ptr is None gets the program of
\* the quotation of its name; the assertion fails if that is None too.
RECURSIVE fill_recursive_calls(_, _, _)
fill_recursive_calls(L, view, n) ==
    [i \in 1..Len(n) |->
        IF IsList(n[i]) THEN JList(fill_recursive_calls(L, view, n[i].list))
        ELSE IF IsOperation(n[i]) /\ n[i].type = "EXECUTE" /\ n[i].ptr = 0
                /\ chain_has(L, view, n[i].name)
             THEN [n[i] EXCEPT !.ptr = chain_get(L, view, n[i].name).program]
             ELSE n[i]]
RECURSIVE fill_asserts(_, _, _)
fill_asserts(L, view, n) ==
    \E i \in 1..Len(n) :
        IF IsList(n[i]) THEN fill_asserts(L, view, n[i].list)
        ELSE /\ IsOperation(n[i]) /\ n[i].type = "EXECUTE" /\ n[i].ptr = 0
             /\ chain_has(L, view, n[i].name)
             /\ chain_get(L, view, n[i].name).program = 0

\* _populate_joy_definitions, first pass: a placeholder for every key.
RECURSIVE placeholders_from(_, _, _, _, _, _)
placeholders_from(L, view, definitions, visibility, module, k) ==
    IF k > Len(definitions) THEN Done(L, None)
    ELSE IF chain_has(L, view, definitions[k].key) THEN Fail(L, "AssertionError")
    ELSE placeholders_from(
             chain_set(L, view, definitions[k].key, Quotation(0, visibility, module)),
             view, definitions, visibility, module, k + 1)

\* A handler that removes nothing.
pop_all_keeps(L, view, definitions, k) == L
\* The handler of a JoyError in the second pass: pop every key.
RECURSIVE pop_all(_, _, _, _)
pop_all(L, view, definitions, k) ==
    IF k > Len(definitions) THEN L
    ELSE pop_all(chain_pop(L, view, definitions[k].key), view, definitions, k + 1)

\* A set_program that binds every word of the same bare name, of whatever
\* module, to the new program.
set_program_rebinds(L, view, key, prg) ==
    LET same(k) == k = key \/ (str_contains(k, ".") /\ str_split1(k, ".")[2] = key)
    IN  [L EXCEPT !.heap = Append(@, prg),
                  !.layers = [i \in DOMAIN @ |->
                                 [k \in DOMAIN @[i] |->
                                     IF same(k) THEN [@[i][k] EXCEPT !.program = Len(L.heap) + 1]
                                     ELSE @[i][k]]]]
\* `quot.program = prg`: the linked body is a new program object.
set_program(L, view, key, prg) ==
    [L EXCEPT !.heap = Append(@, prg),
              !.layers[chain_layer(L, view, key)][key].program = Len(L.heap) + 1]

\* Second pass: link each body.
RECURSIVE link_from(_, _, _, _)
link_from(L, view, definitions, k) ==
    IF k > Len(definitions) THEN Done(L, None)
    ELSE LET linked(r) ==
                 IF IsJoyError(r.exc) THEN Fail(pop_all(r.lib, view, definitions, 1), r.exc)
                 ELSE IF r.exc # "" THEN r
                 ELSE link_from(set_program(r.lib, view, definitions[k].key, r.val),
                                view, definitions, k + 1)
         IN  linked(link_body(L, view, definitions[k].tokens))

\* Third pass: resolve the placeholders.  The list built by
\* _fill_recursive_calls holds the same operation objects as the list it
\* replaces, so the two lists have the same items: one program object.
RECURSIVE fill_from(_, _, _, _)
fill_from(L, view, definitions, k) ==
    IF k > Len(definitions) THEN Done(L, None)
    ELSE LET id == chain_get(L, view, definitions[k].key).program
         IN  IF fill_asserts(L, view, L.heap[id]) THEN Fail(L, "AssertionError")
             ELSE fill_from([L EXCEPT !.heap[id] = fill_recursive_calls(L, view, L.heap[id])],
                            view, definitions, k + 1)

_populate_joy_definitions(L, view, definitions, visibility, module) ==
    LET third(r) == IF r.exc # "" THEN r ELSE fill_from(r.lib, view, definitions, 1)
        second(r) == IF r.exc # "" THEN r ELSE third(link_from(r.lib, view, definitions, 1))
    IN  second(placeholders_from(L, view, definitions, visibility, module, 1))

\* load_joy_library's _export.
RECURSIVE export_from(_, _, _, _, _, _)
export_from(L, export_view, local_view, export_scope, defs, k) ==
    IF k > Len(defs) THEN L
    ELSE IF ~chain_has(L, local_view, defs[k].key) THEN
        export_from(L, export_view, local_view, export_scope, defs, k + 1)
    ELSE LET quot == chain_get(L, local_view, defs[k].key)
         IN  export_from(
                 chain_set(L, export_view, export_scope \o defs[k].key,
                           Quotation(quot.program,
                                     IF quot.visibility = "local" THEN "private" ELSE "public",
                                     quot.module)),
                 export_view, local_view, export_scope, defs, k + 1)

\* StructMeta.from_typedef: a new class object for the type.
from_typedef(L, typename, fields) ==
    [id |-> L.classes + 1, name |-> typename, arity |-> Len(fields), fields |-> fields]

\* load_joy_library's _store_target: a quotation without a program that
\* carries the stack effect of the type.
_store_target(L, target_view, typename, effect, module_name) ==
    chain_set(L, target_view, typename,
              [Quotation(0, "public", module_name) EXCEPT !.type = effect])

\* load_joy_library's loop over the TYPEDEFs, from the k-th on.
RECURSIVE register_types(_, _, _, _, _, _)
register_types(L, types, k, export_view, local_view, module_name) ==
    IF k > Len(types) THEN Done(L, None)
    ELSE IF types[k].kind = "quotation" THEN
        LET typename == types[k].typename
            effect == types[k].effect
        IN  IF /\ typename \in DOMAIN L.layers[export_view[1]]
               /\ L.layers[export_view[1]][typename].type # None
               /\ L.layers[export_view[1]][typename].type # effect
            THEN Fail(L, "JoyTypeDuplicate")
            ELSE register_types(
                     _store_target(_store_target(L, export_view, typename, effect, module_name),
                                   local_view, typename, effect, module_name),
                     types, k + 1, export_view, local_view, module_name)
    ELSE IF types[k].kind # "product" THEN Fail(L, "NotImplementedError")
    ELSE LET struct_type == from_typedef(L, types[k].typename, types[k].fields)
             type_key == struct_type.name
             made == [L EXCEPT !.classes = @ + 1]
         IN  IF type_key \in DOMAIN L.struct_types
                /\ L.struct_types[type_key].id # struct_type.id
             THEN Fail(made, "JoyTypeDuplicate")
             ELSE register_types(
                      [made EXCEPT !.struct_types = dict_set(@, type_key, struct_type)],
                      types, k + 1, export_view, local_view, module_name)

\* load_joy_library; the value returned is the local view.  (A module name
\* is never empty: the empty name stands for None.)
load_joy_library(L, export_view, sections, context_view) ==
    LET local_lib == with_overlay(L, context_view)
        export_scope == IF sections.module # << >> THEN sections.module \o <<".">> ELSE << >>
        exported(r) ==
            IF r.exc # "" THEN r
            ELSE Done(export_from(r.lib, export_view, local_lib.view, export_scope,
                                  sections.public \o sections.private, 1),
                      local_lib.view)
        public(r) ==
            IF r.exc # "" THEN r
            ELSE exported(_populate_joy_definitions(r.lib, local_lib.view, sections.public,
                                                    "public", sections.module))
        private(r) ==
            IF r.exc # "" THEN r
            ELSE public(_populate_joy_definitions(r.lib, local_lib.view, sections.private,
                                                  "local", sections.module))
    IN  private(register_types(local_lib.lib, sections.types, 1, export_view,
                               local_lib.view, sections.module))

_load_joy_block(L, export_view, data, context_view, expected_ns) ==
    IF data.module # expected_ns /\ expected_ns # << >> THEN Fail(L, "JoyModuleError")
    ELSE LET module_name == IF data.module # << >> THEN data.module ELSE expected_ns
             context(r) ==
                 IF r.exc # "" \/ module_name = << >> THEN r
                 ELSE Done(mark_module_loaded(r.lib, module_name), r.val)
         IN  context(load_joy_library(L, export_view, data, context_view))

\* _joy_loader's loop over the items of the first candidate file that exists.
RECURSIVE joy_loader_from(_, _, _, _, _, _)
joy_loader_from(L, view, ns, items, context_view, k) ==
    IF k > Len(items) THEN Done(L, None)
    ELSE IF items[k].typ # "library" THEN
        joy_loader_from(L, view, ns, items, context_view, k + 1)
    ELSE LET loaded(r) ==
                 IF r.exc # "" THEN r
                 ELSE joy_loader_from(r.lib, view, ns, items, r.val, k + 1)
         IN  loaded(_load_joy_block(L, view, items[k], context_view, ns))

_joy_loader(L, view, ns) ==
    IF ns \notin DOMAIN JoyFiles THEN Done(Bump(L, <<"_joy_loader", ns>>), None)
    ELSE joy_loader_from(Bump(L, <<"_joy_loader", ns>>), view, ns, JoyFiles[ns], view, 1)

\* The root view of the runtime's library.
Root == <<1>>

\* _execute's loop from item k on; `out` is None or a stack.  A term runs
\* on a fresh stack, with nothing to read on the console.
\* A stack as the caller holds it: its items, and the empty value its chain
\* of pairs ends in: the `nil` of types.py, or the `tuple()` interpret starts
\* from when it is given no stack.  Steps build on the tail they are given,
\* so a run ends on the empty value it started from.
NilSingleton == [empty |-> "nil"]
EmptyTuple == [empty |-> "tuple()"]
Stacked(stk, bottom) == [stack |-> stk, bottom |-> bottom]
AStack(stk) == Stacked(stk, EmptyTuple)
RECURSIVE execute_from(_, _, _, _, _, _)
execute_from(L, source, val, context_view, out, k) ==
    IF k > Len(source) THEN Done(L, out)
    ELSE IF source[k].typ = "term" THEN
        LET ran(L2, run) ==
                IF run.kind = "exit" THEN Fail(L2, "SystemExit")
                ELSE execute_from(L2, source, val, context_view,
                                  IF run.kind = "stack" THEN AStack(run.stack) ELSE None,
                                  k + 1)
            linked(r) ==
                IF r.exc # "" THEN r
                ELSE ran(r.lib, interpret(r.lib, r.val, nil, val, 0))
        IN  linked(link_body(L, context_view, source[k].tokens))
    ELSE
        LET loaded(r) ==
                IF r.exc # "" THEN r
                ELSE execute_from(r.lib, source, val, r.val, Stacked(nil, NilSingleton), k + 1)
        IN  loaded(_load_joy_block(L, Root, source[k], context_view, << >>))

_execute(L, source, val) == execute_from(L, source, val, Root, None, 1)

-----------------------------------------------------------------------------
(* The programs and stacks interpret is called with. *)

dupOp == Function(n_dup, "op_dup")
firstOp == Function(n_first, "op_first")
assertOp == Function(n_assert_b, "op_assert_b")
iOp == Combinator(n_i, "comb_i")
dipOp == Combinator(n_dip, "comb_dip")
stepOp == Combinator(n_step, "comb_step")
execOp == Combinator(n_exec_b, "comb_exec_b")
\* `word == 2 dup`, linked: its program is object 1 of the heap.
wordOp == Execute(<<"w", "o", "r", "d">>, 1)
WordHeap == << <<JInt(2), dupOp>> >>

\* Quotations: [], [1 2], [dup], [false assert!], [[] first].
QEmpty == JList(<< >>)
QPush == JList(<<JInt(1), JInt(2)>>)
QDup == JList(<<dupOp>>)
QAssert == JList(<<JBool(FALSE), assertOp>>)
QFirst == JList(<<JList(<< >>), firstOp>>)

StackValues == {JInt(1), JBool(FALSE), dupOp, QEmpty, QPush, QDup, QAssert, QFirst}
Literals ==
    {JInt(1), JBool(FALSE), JStr(<<"s">>), JSym(<<"a">>), JSym(s_ABORT), JSym(s_BREAK), QPush}
Operations == {dupOp, firstOp, assertOp, iOp, dipOp, stepOp, execOp, wordOp}
Waiting == {JInt(2), dupOp}

SeqsUpTo(S, n) == UNION {[1..k -> S] : k \in 0..n}

InitStacks == {base \o args : base \in {nil, <<JInt(2)>>}, args \in SeqsUpTo(StackValues, MaxArgs)}
InitPrograms == {<<front>> \o rest : front \in Literals \cup Operations,
                                     rest \in SeqsUpTo(Waiting, MaxWaiting)}

NoOp == None

-----------------------------------------------------------------------------
(* interpret as a state machine: one action per turn of its loop. *)

Init ==
    /\ program \in InitPrograms
    /\ stack \in InitStacks
    /\ validate \in BOOLEAN
    /\ stdin \in 0..MaxInput
    /\ heap = WordHeap
    /\ op = NoOp
    /\ prev = [stack |-> stack, program |-> program, stdin |-> stdin]
    /\ result = "running"
    /\ library = [Builtins EXCEPT !.heap = heap]
    /\ last = None
    /\ calls = 0

Turn == {interpret_iter(library, program, stack, validate, stdin)}

\* The front item ran: the loop goes on with the stack and queue it left.
IterContinue ==
    /\ result = "running" /\ program # << >>
    /\ \E turn \in Turn :
        /\ turn.kind = "continue"
        /\ op' = Head(program)
        /\ prev' = [stack |-> stack, program |-> program, stdin |-> stdin]
        /\ stack' = turn.stack
        /\ program' = turn.program
        /\ stdin' = turn.stdin
        /\ UNCHANGED <<validate, heap, result, library, last, calls>>

\* Validation refused the front operation: `break`, then `return stack`.
IterBreak ==
    /\ result = "running" /\ program # << >>
    /\ \E turn \in Turn :
        /\ turn.kind = "break"
        /\ result' = "stack"
        /\ UNCHANGED <<program, stack, validate, op, prev, stdin, heap, library, last, calls>>

\* The step raised: the handler prints and the call returns None.
IterNone ==
    /\ result = "running" /\ program # << >>
    /\ \E turn \in Turn :
        /\ turn.kind = "none"
        /\ op' = Head(program)
        /\ prev' = [stack |-> stack, program |-> program, stdin |-> stdin]
        /\ program' = turn.program
        /\ stdin' = turn.stdin
        /\ result' = "none"
        /\ UNCHANGED <<stack, validate, heap, library, last, calls>>

\* sys.exit: SystemExit is no Exception and leaves interpret.
IterExit ==
    /\ result = "running" /\ program # << >>
    /\ \E turn \in Turn :
        /\ turn.kind = "exit"
        /\ op' = Head(program)
        /\ prev' = [stack |-> stack, program |-> program, stdin |-> stdin]
        /\ program' = turn.program
        /\ stdin' = turn.stdin
        /\ result' = "exit"
        /\ UNCHANGED <<stack, validate, heap, library, last, calls>>

\* The queue is empty: `return stack`.
Return ==
    /\ result = "running" /\ program = << >>
    /\ result' = "stack"
    /\ UNCHANGED <<program, stack, validate, op, prev, stdin, heap, library, last, calls>>

Next == IterContinue \/ IterBreak \/ IterNone \/ IterExit \/ Return

Spec == Init /\ [][Next]_vars

-----------------------------------------------------------------------------
(* The runtime as a state machine: one action per call of its API.         *)

\* `MODULE t PRIVATE h == 2 ; PUBLIC a == h dup ; END.`
ModuleT ==
    LibraryItem(ns_t, <<Definition(n_h, <<<<"2">>>>)>>, <<Definition(n_a, <<n_h, n_dup>>)>>)
\* `MODULE u PUBLIC q == t.h ; END.` and `MODULE u PUBLIC q == h ; END.`
ModuleU(helper) == LibraryItem(ns_u, << >>, <<Definition(n_q, <<helper>>)>>)
\* `ping == pong`, `pong == ping`, `loop == [ loop ]`, and a module r of them
\* in the order given.
Ping == Definition(n_ping, <<n_pong>>)
Pong == Definition(n_pong, <<n_ping>>)
Loop == Definition(n_loop, <<<<"[">>, n_loop, <<"]">>>>)
ModuleR(definitions) == LibraryItem(ns_r, << >>, definitions)
\* `MODULE x PUBLIC a == size ; length == 1 ; END.`
ModuleX ==
    LibraryItem(ns_x, << >>, <<Definition(n_a, <<n_size>>), Definition(n_length, <<<<"1">>>>)>>)
\* `key == z` (no word z exists) and a module y with such a definition among
\* its private or its public ones.
Bad(key) == Definition(key, <<n_z>>)
ModuleY(private, public) == LibraryItem(ns_y, private, public)
\* `MODULE v PUBLIC h == 3 ; END.`
ModuleV == LibraryItem(ns_v, << >>, <<Definition(n_h, <<<<"3">>>>)>>)
\* `MODULE w PRIVATE h == 1 ; PUBLIC q == h ; END.`
ModuleW == LibraryItem(ns_w, <<Definition(n_h, <<<<"1">>>>)>>, <<Definition(n_q, <<n_h>>)>>)

ns_s == <<"s">>
\* `P :: a:Int b:str`, `S :: x`, `Q :: f:(d -- e)`
TypeP == Product(<<"P">>, <<Field(<<"a">>, <<"I", "n", "t">>, FALSE),
                            Field(<<"b">>, <<"s", "t", "r">>, FALSE)>>)
TypeS == Product(<<"S">>, <<Field(<<"x">>, << >>, FALSE)>>)
TypeQ == Product(<<"Q">>, <<Field(<<"f">>, <<"l", "i", "s", "t">>, TRUE)>>)
\* `MODULE s PUBLIC P :: a:Int b:str ; END.` and the same name with another shape.
PairBlock == TypesItem(ns_s, <<TypeP>>)
TypeP2 == Product(<<"P">>, <<Field(<<"a">>, << >>, FALSE)>>)
PairBlock2 == TypesItem(ns_s, <<TypeP2>>)

Sources ==
    {<<ModuleT>>,
     <<ModuleT, TermItem(<<n_h>>)>>,
     <<ModuleT, TermItem(<<n_a>>)>>,
     <<TermItem(<<n_h>>)>>,
     <<TermItem(<<Dot(ns_t, n_h)>>)>>,
     <<TermItem(<<Dot(ns_t, n_a)>>)>>,
     <<ModuleU(Dot(ns_t, n_h))>>,
     <<ModuleU(n_h)>>,
     <<ModuleT, ModuleU(n_h)>>,
     <<ModuleR(<<Ping, Pong, Loop>>)>>,
     <<ModuleR(<<Loop, Pong, Ping>>)>>,
     <<ModuleX>>,
     <<ModuleY(<<Definition(n_h, <<<<"2">>>>)>>, <<Definition(n_a, <<n_h>>), Bad(n_q)>>)>>,
     <<ModuleY(<<Definition(n_h, <<<<"2">>>>)>>, <<Bad(n_q), Definition(n_a, <<n_h>>)>>)>>,
     <<ModuleY(<<Definition(n_h, <<<<"2">>>>), Bad(n_g)>>, <<Definition(n_a, <<n_h>>)>>)>>,
     <<TermItem(<<Dot(ns_x, n_a)>>)>>,
     <<PairBlock>>,
     <<PairBlock2>>,
     <<ModuleV>>,
     <<ModuleW>>,
     <<ModuleT, ModuleW>>,
     <<TermItem(<<Dot(ns_v, n_h)>>)>>,
     <<TermItem(<<Dot(ns_w, n_q)>>)>>,
     <<TermItem(<<Dot(ns_j, n_p)>>)>>,
     <<TermItem(<<Dot(ns_b, n_p)>>)>>,
     <<TermItem(<<<<"2">>, Dot(ns_m, n_dup)>>)>>,
     <<TermItem(<<<<"[">>, <<"2">>, <<"]">>, Dot(ns_m, n_first)>>)>>,
     <<TermItem(<<<<"2">>, Dot(ns_b, n_dup)>>)>>}

Names ==
    {n_dup, n_h, Dot(ns_t, n_h), Dot(ns_t, n_a), Dot(ns_j, n_p), Dot(ns_b, n_p),
     Dot(ns_b, n_dup), Dot(ns_m, n_dup), Dot(ns_m, n_first)}

InitRuntime ==
    /\ library = Builtins
    /\ last = None
    /\ calls = 0
    /\ program = << >>
    /\ stack = nil
    /\ validate = FALSE
    /\ stdin = 0
    /\ heap = << >>
    /\ op = NoOp
    /\ prev = [stack |-> nil, program |-> << >>, stdin |-> 0]
    /\ result = "stack"

\* The views made during a call die with it; the root layer stays.
Collect(L) == [L EXCEPT !.layers = <<L.layers[1]>>]

\* The call returned or raised: the runtime keeps the library it left.
\* (`left` is that library with the views of the call.)
Ended(name, arg, r) ==
    /\ library' = Collect(r.lib)
    /\ last' = [call |-> name, arg |-> arg, exc |-> r.exc, val |-> r.val,
                before |-> library, left |-> r.lib]
    /\ calls' = calls + 1
    /\ UNCHANGED ivars

Run ==
    /\ calls < MaxCalls
    /\ \E source \in Sources, val \in BOOLEAN :
           Ended("run", source, _execute(library, source, val))

\* load: the same, and the stack is dropped.
Dropped(r) == [r EXCEPT !.val = None]
Load ==
    /\ calls < MaxCalls
    /\ \E source \in Sources, val \in BOOLEAN :
           Ended("load", source, Dropped(_execute(library, source, val)))

GetFunction ==
    /\ calls < MaxCalls
    /\ \E name \in Names : Ended("get_function", name, get_function(library, name))

GetFactory ==
    /\ calls < MaxCalls
    /\ \E name \in Names : Ended("get_factory", name, get_factory(library, name, FALSE))

GetQuotation ==
    /\ calls < MaxCalls
    /\ \E name \in Names : Ended("get_quotation", name, get_quotation(library, Root, name))

\* register_operation(name, func)
n_quadruple == <<"q", "u", "a", "d", "r", "u", "p", "l", "e">>
Registered == {n_quadruple, n_dup}
PyFunctions == {PyDup, PyFirst, PyBare, PyNoParams, PyNoReturn}
register_operation(L, name, func) == add_function(L, name, func)
RegisterOperation ==
    /\ calls < MaxCalls
    /\ \E name \in Registered, func \in PyFunctions :
           Ended("register_operation", [name |-> name, func |-> func],
                 register_operation(library, name, func))

NextRuntime ==
    Run \/ Load \/ GetFunction \/ GetFactory \/ GetQuotation \/ RegisterOperation

SpecRuntime == InitRuntime /\ [][NextRuntime]_vars

-----------------------------------------------------------------------------
(* The empty stack: constructing stacks, converting lists, and the calls   *)
(* of the runtime that can leave a stack empty.                            *)

\* Stack.__new__ once types.py is imported: `nil` holds the singleton.
Stack__new__(L, tail, head) ==
    IF tail = None /\ head = None THEN
        IF NilSingleton = None THEN Done(L, Stacked(nil, NilSingleton))
        ELSE Fail(L, "ValueError")
    ELSE IF tail = None THEN Done(L, Stacked(<<head>>, None))
    ELSE Done(L, Stacked(Stack(tail.stack, head), tail.bottom))

\* Runtime.to_stack: list_to_stack(values) with base=None starts from nil and
\* pushes reversed(values).
to_stack(L, values) == Done(L, Stacked(list_to_stack(values), NilSingleton))

\* Runtime.from_stack: stack_to_list walks the pairs from the top.
from_stack(L, stk) == Done(L, stack_to_list(stk.stack))

\* Runtime.operation: names are looked up among the functions.
operation(L, name) ==
    LET found(f) == IF f.exc # "" THEN f ELSE Done(f.lib, Function(name, f.val))
    IN  found(get_function(L, name))

\* An apply that runs what the step left in the queue.
apply_runs(L, op_or_name, stk) ==
    LET ran(r) ==
            IF r.kind # "stack" THEN Fail(L, r.exc)
            ELSE Done(L, Stacked(r.stack, stk.bottom))
        resolved(f) ==
            IF f.exc # "" THEN f
            ELSE ran(interpret(f.lib, <<f.val>>, stk.stack, FALSE, 0))
    IN  resolved(IF IsOperation(op_or_name) THEN Done(L, op_or_name)
                 ELSE operation(L, op_or_name.str))

\* Runtime.apply with an Operation or the name of one (a str): one
\* interpret_step on the caller's stack, the queue it returns is dropped; an
\* exception of the step leaves the call.
apply(L, op_or_name, stk) ==
    LET stepped(r) ==
            IF r.kind = "raise" THEN Fail(L, r.exc)
            ELSE Done(L, Stacked(r.stack, stk.bottom))
        resolved(f) ==
            IF f.exc # "" THEN f
            ELSE stepped(interpret_step(f.lib, <<f.val>>, stk.stack, 0))
    IN  resolved(IF IsOperation(op_or_name) THEN Done(L, op_or_name)
                 ELSE operation(L, op_or_name.str))

\* `.`, `true assert! .`, `2 .`, a library block, and both in one source.
EmptyingSources ==
    {<<TermItem(<< >>)>>,
     <<TermItem(<<n_true, n_assert_b>>)>>,
     <<TermItem(<<<<"2">>>>)>>,
     <<ModuleT>>,
     <<ModuleT, TermItem(<< >>)>>,
     <<TermItem(<<<<"2">>>>), ModuleV>>}
ListValues == {JBool(TRUE), JBool(FALSE)}
Lists == SeqsUpTo(ListValues, MaxArgs)

RunEmptying ==
    /\ calls < MaxCalls
    /\ \E source \in EmptyingSources, val \in BOOLEAN :
           Ended("run", source, _execute(library, source, val))

NewStack ==
    /\ calls < MaxCalls
    /\ \E tail \in {None, Stacked(nil, NilSingleton), Stacked(<<JInt(1)>>, NilSingleton)},
          head \in {None, JInt(1)} :
           Ended("Stack", [tail |-> tail, head |-> head], Stack__new__(library, tail, head))

ToStack ==
    /\ calls < MaxCalls
    /\ \E values \in Lists : Ended("to_stack", values, to_stack(library, values))

\* apply('assert!', to_stack(values)) on a list that is not empty.
Apply ==
    /\ calls < MaxCalls
    /\ \E values \in Lists \ {<< >>} :
           Ended("apply", values,
                 apply(library, JStr(n_assert_b), to_stack(library, values).val))

\* from_stack(to_stack(values))
FromStack ==
    /\ calls < MaxCalls
    /\ \E values \in Lists :
           LET marshalled(stk) == Ended("from_stack", stk, from_stack(library, stk))
           IN  marshalled(to_stack(library, values).val)

LoadEmptying ==
    /\ calls < MaxCalls
    /\ \E source \in EmptyingSources, val \in BOOLEAN :
           Ended("load", source, Dropped(_execute(library, source, val)))

NextNil == RunEmptying \/ LoadEmptying \/ NewStack \/ ToStack \/ Apply \/ FromStack

SpecNil == InitRuntime /\ [][NextNil]_vars

-----------------------------------------------------------------------------
(* `struct` and `unstruct` run by the interpreter, on a library with the   *)
(* struct types of one loaded block.                                       *)

\* The library after `MODULE s PUBLIC P :: ... ; S :: ... ; Q :: ... ; END.`
TypedLibrary ==
    Collect(_load_joy_block(Builtins, Root, TypesItem(ns_s, <<TypeP, TypeS, TypeQ>>),
                            Root, << >>).lib)

structOp == Combinator(n_struct, "comb_struct")
unstructOp == Combinator(n_unstruct, "comb_unstruct")
StructValues == {JInt(1), JBool(TRUE), JStr(<<"s">>), JList(<< >>)}
\* On top: the symbol of a registered type, of an unknown one, or no symbol.
StructTops == {JSym(<<"P">>), JSym(<<"S">>), JSym(<<"Q">>), JSym(<<"N">>), JInt(1)}
StructStacks ==
    {nil} \cup {base \o args \o <<top>> : base \in {nil, <<JInt(2)>>},
                                          args \in SeqsUpTo(StructValues, MaxArgs),
                                          top \in StructTops}
StructPrograms == {<<structOp, unstructOp>>, <<structOp>>, <<unstructOp>>}

InitStruct ==
    /\ program \in StructPrograms
    /\ stack \in StructStacks
    /\ validate \in BOOLEAN
    /\ stdin = 0
    /\ heap = << >>
    /\ op = NoOp
    /\ prev = [stack |-> stack, program |-> program, stdin |-> stdin]
    /\ result = "running"
    /\ library = TypedLibrary
    /\ last = None
    /\ calls = 0

NextStruct == IterContinue \/ IterNone \/ Return

SpecStruct == InitStruct /\ [][NextStruct]_vars

-----------------------------------------------------------------------------
(* interpret on the operations whose precondition can_execute checks.      *)

divOp == Function(n_div, "op_div")
indexOp == Function(n_index, "op_index")
goodOp == Function(<<"g", "o", "o", "d", "-", "o", "p">>, "good_op")
badOp == Function(<<"b", "a", "d", "-", "o", "p">>, "bad_op")
noisyOp == Function(<<"n", "o", "i", "s", "y", "-", "o", "p">>, "noisy_op")
CheckedOps == {dupOp, firstOp, divOp, indexOp, iOp, dipOp, goodOp, badOp, noisyOp}
CheckedValues == {JInt(0), JInt(2), JList(<< >>), JList(<<JInt(1)>>)}
CheckedStacks == SeqsUpTo(CheckedValues, MaxArgs)
CheckedPrograms == {<<front>> \o rest : front \in CheckedOps \cup {JInt(0)},
                                        rest \in {<< >>, <<divOp>>, <<indexOp>>}}

InitChecked ==
    /\ program \in CheckedPrograms
    /\ stack \in CheckedStacks
    /\ validate \in BOOLEAN
    /\ stdin = 0
    /\ heap = << >>
    /\ op = NoOp
    /\ prev = [stack |-> stack, program |-> program, stdin |-> stdin]
    /\ result = "running"
    /\ library = Builtins
    /\ last = None
    /\ calls = 0

NextChecked == IterContinue \/ IterBreak \/ IterNone \/ Return

SpecChecked == InitChecked /\ [][NextChecked]_vars

-----------------------------------------------------------------------------
(* The linker on names that several tables know.                           *)

\* `DEFINE dup == 3 ; i == 3 .`: quotations named like a native function
\* and like a combinator.
Shadowing ==
    LibraryItem(<< >>, << >>, <<Definition(n_dup, <<<<"3">>>>), Definition(n_i, <<<<"3">>>>)>>)
n_zz == <<"z", "z">>
ns_k == <<"k">>
\* `2 dup .`, `[ 2 ] i .`, `zz .`, `k.zz .`, `2 e.dup .`, `2 g.dup .`,
\* `"s" 'a -2 .`
LinkedSources ==
    {<<Shadowing>>,
     <<TermItem(<<<<"2">>, n_dup>>)>>,
     <<TermItem(<<<<"[">>, <<"2">>, <<"]">>, n_i>>)>>,
     <<TermItem(<<n_zz>>)>>,
     <<TermItem(<<Dot(ns_k, n_zz)>>)>>,
     <<TermItem(<<<<"2">>, Dot(ns_e, n_dup)>>)>>,
     <<TermItem(<<<<"2">>, Dot(ns_g, n_dup)>>)>>,
     <<TermItem(<<<<"\"", "s", "\"">>, <<"'", "a">>, <<"-", "2">>>>)>>}

RunLinked ==
    /\ calls < MaxCalls
    /\ \E source \in LinkedSources, val \in BOOLEAN :
           Ended("run", source, _execute(library, source, val))

\* register_operation('i', dup) and register_operation('zz', dup)
RegisterLinked ==
    /\ calls < MaxCalls
    /\ \E name \in {n_i, n_zz} :
           Ended("register_operation", [name |-> name, func |-> PyDup],
                 register_operation(library, name, PyDup))

NextLink == RunLinked \/ RegisterLinked

SpecLink == InitRuntime /\ [][NextLink]_vars

-----------------------------------------------------------------------------
(* Runtime.do_step, called again and again on its own results.             *)

\* A do_step that goes on with the next item when there is one.
do_step_twice(L, queue, stk, inp) ==
    LET again(r) ==
            IF r.kind = "ok" /\ r.program # << >>
            THEN interpret_step(L, r.program, r.stack, r.stdin)
            ELSE r
    IN  again(interpret_step(L, queue, stk, inp))

\* interpret_step on a deque copy of the queue, with the runtime's library.
do_step(L, queue, stk, inp) == interpret_step(L, queue, stk, inp)

InitStep == InitChecked /\ ~validate

\* The step returned (new stack, new queue).
DoStep ==
    /\ result = "running" /\ program # << >>
    /\ \E r \in {do_step(library, program, stack, stdin)} :
        /\ r.kind = "ok"
        /\ op' = Head(program)
        /\ prev' = [stack |-> stack, program |-> program, stdin |-> stdin]
        /\ stack' = r.stack
        /\ program' = r.program
        /\ stdin' = r.stdin
        /\ UNCHANGED <<validate, heap, result, library, last, calls>>

\* The step raised: the exception leaves do_step.
DoStepRaises ==
    /\ result = "running" /\ program # << >>
    /\ \E r \in {do_step(library, program, stack, stdin)} :
        /\ r.kind = "raise"
        /\ op' = Head(program)
        /\ prev' = [stack |-> stack, program |-> program, stdin |-> stdin]
        /\ result' = r.exc
        /\ UNCHANGED <<program, stack, stdin, validate, heap, library, last, calls>>

NextStep == DoStep \/ DoStepRaises

SpecStep == InitStep /\ [][NextStep]_vars

-----------------------------------------------------------------------------
(* Properties of the interpreter.  `op` and `prev` hold the item of the    *)
(* last step and the stack, queue and console it started from.             *)

\* The last step returned to the loop (it neither raised nor exited).
StepReturned == result \in {"running", "stack"}
IsSentinel(v) == IsBytes(v) /\ v.sym \in {s_ABORT, s_BREAK}
\* The last step was `o` on a stack with a list on top.
OnQuotation(o) == op = o /\ prev.stack # nil /\ IsList(Top(prev.stack))

\* C1: exec! on push(Q, S) returns normally with push(flag, push(payload, S)),
\* flag a boolean and S untouched: no failure while running Q propagates.
ExecTotality ==
    OnQuotation(execOp) =>
        /\ StepReturned
        /\ Len(stack) = Len(prev.stack) + 1
        /\ IsBool(Top(stack))
        /\ Below(stack, 2) = Below(prev.stack, 1)

\* Quotations that run to an empty queue, and quotations that fail, on a
\* fresh stack with validation enabled.
CleanQuotations == {QEmpty, QPush}
FailingQuotations == {QAssert, QFirst, QDup}

\* C2: exec! runs Q on a fresh stack with validation on: a clean run pushes
\* the list of its final stack (top first) and true, a failed one the error
\* value and false; [ false assert! ] leaves false over an assertion error.
ExecOutcome ==
    OnQuotation(execOp) =>
        LET Q == Top(prev.stack)
            S == Below(prev.stack, 1)
        IN  /\ Q \in CleanQuotations =>
                   stack = Stack(Stack(S, JList(Reverse(Q.list))), JBool(TRUE))
            /\ Q \in FailingQuotations =>
                   \E k \in JoyErrors \cup {"IndexError", "TypeError", "ValueError"} :
                       stack = Stack(Stack(S, JErrorValue(k)), JBool(FALSE))
            /\ Q = QAssert =>
                   stack = Stack(Stack(S, JErrorValue("JoyAssertionError")), JBool(FALSE))

\* C3: stepping `i` on push(Q, S) pops Q, leaves S unchanged and puts Q's
\* items in order at the front of the queue; running `i` followed by R on
\* push(Q, S) equals running Q's items followed by R on S.
ILaw ==
    OnQuotation(iOp) =>
        LET Q == Top(prev.stack).list
            S == Below(prev.stack, 1)
            R == Tail(prev.program)
        IN  /\ StepReturned
            /\ stack = S
            /\ program = Q \o R
            /\ stdin = prev.stdin
            /\ interpret(library, prev.program, prev.stack, validate, prev.stdin)
                 = interpret(library, Q \o R, S, validate, prev.stdin)

\* `i` has run on [1 2] over a non-empty rest of the stack, with two items
\* waiting behind it.
ILawWitness ==
    /\ op = iOp /\ result = "running"
    /\ Top(prev.stack) = QPush /\ Len(prev.stack) > 1
    /\ Len(prev.program) = 3
    /\ program = <<JInt(1), JInt(2)>> \o Tail(prev.program)

\* C4: `dip` on push(Q, push(X, S)) ends with push(X, run(Q, S)) for every
\* value X, operations included; the queue item behind Q's items has the
\* only effect of re-pushing X.
DipLaw ==
    (OnQuotation(dipOp) /\ Len(prev.stack) > 1 /\ ~validate) =>
        LET Q == Top(prev.stack).list
            X == Top(Below(prev.stack, 1))
            S == Below(prev.stack, 2)
            run == interpret(library, Q, S, FALSE, prev.stdin)
        IN  /\ StepReturned
            /\ \A T \in {nil, <<JInt(1)>>} :
                   interpret_step(library, <<program[Len(Q) + 1]>>, T, stdin)
                     = Ok(Stack(T, X), << >>, stdin)
            /\ run.kind = "stack" =>
                   interpret(library, <<dipOp>>, prev.stack, FALSE, prev.stdin)
                     = [run EXCEPT !.stack = Stack(run.stack, X)]

\* push v1, run Q, push v2, run Q, ..., from S.
RECURSIVE EachInTurn(_, _, _, _, _)
EachInTurn(h, values, Q, S, inp) ==
    IF values = << >> THEN [kind |-> "stack", stack |-> S, stdin |-> inp, exc |-> ""]
    ELSE LET run == interpret(h, Q, Stack(S, Head(values)), FALSE, inp)
         IN  IF run.kind = "stack" THEN EachInTurn(h, Tail(values), Q, run.stack, run.stdin)
             ELSE run

\* C5: `step` on push(Q, push([v1..vn], S)) equals push v1, run Q, ...,
\* push vn, run Q from S; with an empty list both arguments are dropped and
\* nothing is added to the queue.
StepLaw ==
    (OnQuotation(stepOp) /\ Len(prev.stack) > 1 /\ IsList(Top(Below(prev.stack, 1)))
       /\ ~validate) =>
        LET Q == Top(prev.stack).list
            values == Top(Below(prev.stack, 1)).list
            S == Below(prev.stack, 2)
        IN  /\ StepReturned
            /\ values = << >> => (stack = S /\ program = Tail(prev.program))
            /\ interpret(library, <<stepOp>>, prev.stack, FALSE, prev.stdin)
                 = EachInTurn(library, values, Q, S, prev.stdin)

\* C6, as the code has it: stepping a queue whose front is a non-operation
\* value V other than the symbols ABORT and BREAK yields push(V, S) and the
\* rest of the queue (the empty queue for [V]), and leaves the console alone.
LiteralInjection ==
    (op # NoOp /\ ~IsOperation(op) /\ ~IsSentinel(op)) =>
        /\ StepReturned
        /\ stack = Stack(prev.stack, op)
        /\ program = Tail(prev.program)
        /\ stdin = prev.stdin

\* The one-item queue [a] has been stepped on a stack of two items.
LiteralInjectionWitness ==
    /\ op = JSym(<<"a">>) /\ prev.program = <<op>> /\ program = << >>
    /\ Len(prev.stack) = 2 /\ stack = Stack(prev.stack, op)

\* C6, as stated: the same for every non-operation value, the symbols ABORT
\* and BREAK included.
LiteralInjectionAll ==
    (op # NoOp /\ ~IsOperation(op)) =>
        /\ StepReturned
        /\ stack = Stack(prev.stack, op)
        /\ program = Tail(prev.program)
        /\ stdin = prev.stdin

\* What a step puts in the queue, in its listed order.
Expansion(o, stk) ==
    IF ~IsOperation(o) THEN << >>
    ELSE IF o = iOp THEN Top(stk).list
    ELSE IF o = dipOp THEN Top(stk).list \o <<Top(Below(stk, 1))>>
    ELSE IF o = stepOp THEN
        LET Q == Top(stk)
            values == Top(Below(stk, 1)).list
        IN  IF values = << >> THEN << >>
            ELSE <<Head(values)>> \o Q.list \o <<JList(Tail(values)), Q, o>>
    ELSE IF o.type = "EXECUTE" THEN heap[o.ptr]
    ELSE << >>

\* C7: a step's new items are at the front of the queue in their listed
\* order, the waiting items keep their order behind them, nothing but the
\* front item is removed; a step starts from the stack and queue the
\* previous step left.
QueueOrder ==
    /\ [](op # NoOp /\ StepReturned =>
             program = Expansion(op, prev.stack) \o Tail(prev.program))
    /\ [][prev' # prev => (prev'.stack = stack /\ prev'.program = program)]_ivars

\* `step` has run on [1 2] [dup] with two different items waiting.
QueueOrderWitness ==
    /\ op = stepOp /\ result = "running"
    /\ Top(prev.stack) = QDup /\ Top(Below(prev.stack, 1)) = QPush
    /\ Len(prev.program) = 3 /\ prev.program[2] # prev.program[3]
    /\ Len(program) = 7

-----------------------------------------------------------------------------
(* Properties of the library and the loaders.  `last` holds the last call  *)
(* on the runtime and the library before it.                               *)

Items(seq) == {seq[i] : i \in 1..Len(seq)}
\* The namespace of a dotted name (the empty name if it has no dot).
Namespace(name) == IF str_contains(name, ".") THEN str_split1(name, ".")[1] ELSE << >>
\* The tokens of the free-standing terms of a source, and those of the
\* bodies of its library blocks other than those of module ns.
TermTokens(source) ==
    UNION {Items(item.tokens) : item \in {i \in Items(source) : i.typ = "term"}}
BodyTokens(source, ns) ==
    UNION {UNION {Items(d.tokens) : d \in Items(item.private \o item.public)} :
               item \in {i \in Items(source) : i.typ = "library" /\ i.module # ns}}
Executed == last # None /\ last.call \in {"run", "load"}
\* The last call looked a name of namespace ns up, by get_function,
\* get_factory or by linking a term.
LookedUp(ns) ==
    /\ last # None
    /\ \/ last.call \in {"get_function", "get_factory"} /\ Namespace(last.arg) = ns
       \/ Executed /\ \E token \in TermTokens(last.arg) : Namespace(token) = ns
\* What the native loader does for ns: the call, the import, a registration
\* for each operator of the module.
NativeOperators(ns) ==
    {Dot(ns, get_joy_name(w.name).val) : w \in Items(PyFiles[ns].operators)}
NativeEvents(ns) ==
    {<<"_py_loader", ns>>, <<"exec_module", ns>>}
        \cup {<<"add_function", name>> : name \in NativeOperators(ns)}

\* C8: over the lookups of names of a native namespace ns the host module is
\* imported and its operators registered exactly once: the first lookup
\* loads it and marks ns loaded, a lookup of a loaded ns loads nothing.
NativeLoadedOnce ==
    \A ns \in DOMAIN PyFiles :
        /\ \A e \in NativeEvents(ns) : Count(library, e) <= 1
        /\ (LookedUp(ns) /\ ns \notin last.before.loaded_modules) =>
               /\ ns \in library.loaded_modules
               /\ NativeOperators(ns) \subseteq DOMAIN library.functions
               /\ \A e \in NativeEvents(ns) :
                      Count(last.before, e) = 0 /\ Count(library, e) = 1
        /\ (last # None /\ ns \in last.before.loaded_modules) =>
               \A e \in NativeEvents(ns) : Count(library, e) = Count(last.before, e)

\* Two operators of m have been resolved: m.first by get_function, after an
\* earlier lookup had loaded m.
NativeLoadedOnceWitness ==
    /\ last # None /\ last.call = "get_function" /\ last.arg = Dot(ns_m, n_first)
    /\ last.exc = "" /\ last.val = "op_first"
    /\ ns_m \in last.before.loaded_modules
    /\ Count(last.before, <<"_py_loader", ns_m>>) = 1
    /\ Count(library, <<"_py_loader", ns_m>>) = 1

\* C9: linking `ns.p` when ns is not loaded and ns.joy publicly defines p
\* loads the module through the Joy loader, installs ns.p, marks ns loaded
\* and emits an Execute operation (which runs `2 dup`), also when there is
\* no native module ns.
JoyModuleLinked ==
    \A ns \in DOMAIN JoyFiles :
        (/\ Executed /\ last.call = "run"
         /\ last.arg = <<TermItem(<<Dot(ns, n_p)>>)>>
         /\ ns \notin last.before.loaded_modules) =>
            /\ last.exc = ""
            /\ last.val = AStack(<<JInt(2), JInt(2)>>)
            /\ Count(library, <<"_joy_loader", ns>>) = 1
            /\ ns \in library.loaded_modules
            /\ chain_has(library, Root, Dot(ns, n_p))
            /\ chain_get(library, Root, Dot(ns, n_p)).visibility = "public"

\* Module t is loaded when a term or body of the source is linked.
LoadedT(source, before) ==
    ns_t \in before.loaded_modules \/ source[1] = ModuleT
\* The source names t's private definition outside module t.
NamesPrivate(source) ==
    \E token \in TermTokens(source) \cup BodyTokens(source, ns_t) :
        token \in {n_h, Dot(ns_t, n_h)}

\* C10: once module t is loaded, no term and no other module, in the same
\* source or a later one, resolves t's private h by its bare or qualified
\* name: linking fails with a name error; t's public word a still runs.
PrivateHidden ==
    /\ (Executed /\ LoadedT(last.arg, last.before) /\ NamesPrivate(last.arg)) =>
           last.exc = "JoyNameError"
    /\ (Executed /\ last.call = "run" /\ ns_t \in last.before.loaded_modules
          /\ last.arg = <<TermItem(<<Dot(ns_t, n_a)>>)>>) =>
           (last.exc = "" /\ last.val = AStack(<<JInt(2), JInt(2)>>))

\* The words of the root table the last call found there, and the program
\* object of one of them.
RootBefore == DOMAIN last.before.layers[1]
ProgramOf(L, key) == L.heap[L.layers[1][key].program]
\* The last call loaded module `second` from a source of its own when
\* module `first` was loaded.
LoadedAfter(second, ns, first) ==
    /\ Executed /\ last.exc = "" /\ last.arg = <<second>>
    /\ first \in last.before.loaded_modules
    /\ ns \notin last.before.loaded_modules
\* The last call ran the one-word program `name` when all of `modules` were
\* loaded.
RanWord(name, modules) ==
    /\ Executed /\ last.call = "run" /\ last.arg = <<TermItem(<<name>>)>>
    /\ modules \subseteq last.before.loaded_modules

\* C11: loading a module with a private h after a module that has a private
\* h (t) or a public h (v) leaves every word of the root table and its
\* linked program as they were; the new module's public word targets its
\* own helper; afterwards t.a runs t's helper, w.q runs w's, and v.h is
\* still callable with its own body.
PrivateClashIsolated ==
    /\ \A first \in {ns_t, ns_v} :
         LoadedAfter(ModuleW, ns_w, first) =>
            /\ \A key \in RootBefore :
                   /\ key \in DOMAIN library.layers[1]
                   /\ library.layers[1][key] = last.before.layers[1][key]
                   /\ ProgramOf(library, key) = ProgramOf(last.before, key)
            /\ ProgramOf(library, Dot(ns_w, n_q))
                  = <<Execute(n_h, library.layers[1][Dot(ns_w, n_h)].program)>>
            /\ ProgramOf(library, Dot(ns_w, n_h)) = <<JInt(1)>>
    /\ LoadedAfter(ModuleT, ns_t, ns_w) =>
            /\ \A key \in RootBefore :
                   /\ key \in DOMAIN library.layers[1]
                   /\ library.layers[1][key] = last.before.layers[1][key]
                   /\ ProgramOf(library, key) = ProgramOf(last.before, key)
            /\ ProgramOf(library, Dot(ns_t, n_h)) = <<JInt(2)>>
    /\ RanWord(Dot(ns_t, n_a), {ns_t, ns_w}) =>
            (last.exc = "" /\ last.val = AStack(<<JInt(2), JInt(2)>>))
    /\ RanWord(Dot(ns_w, n_q), {ns_t, ns_w}) =>
            (last.exc = "" /\ last.val = AStack(<<JInt(1)>>))
    /\ RanWord(Dot(ns_w, n_q), {ns_v, ns_w}) =>
            (last.exc = "" /\ last.val = AStack(<<JInt(1)>>))
    /\ RanWord(Dot(ns_v, n_h), {ns_v, ns_w}) =>
            (last.exc = "" /\ last.val = AStack(<<JInt(3)>>))

\* t was loaded, then w with its own private h, and t.a has just run.
PrivateClashIsolatedWitness ==
    /\ RanWord(Dot(ns_t, n_a), {ns_t, ns_w})
    /\ last.val = AStack(<<JInt(2), JInt(2)>>)
    /\ ProgramOf(library, Dot(ns_t, n_h)) = <<JInt(2)>>
    /\ ProgramOf(library, Dot(ns_w, n_h)) = <<JInt(1)>>

\* Some Execute operation of program n, nested quotations included, has no
\* target.
RECURSIVE HasNullTarget(_)
HasNullTarget(n) ==
    \E i \in 1..Len(n) :
        IF IsList(n[i]) THEN HasNullTarget(n[i].list)
        ELSE IsOperation(n[i]) /\ n[i].type = "EXECUTE" /\ n[i].ptr = 0
\* The program object word `name` of module ns is bound to.
Target(ns, name) == library.layers[1][Dot(ns, name)].program
\* The last call loaded a library block.
LoadedBlock ==
    /\ Executed /\ last.exc = ""
    /\ \E item \in Items(last.arg) : item.typ = "library"

\* C12: after a block's definitions have been linked, no Execute operation
\* of their programs, nested quotations included, is without a target;
\* ping and pong target each other's program and loop its own, in either
\* order of definition.
RecursionResolved ==
    LoadedBlock =>
        /\ \A key \in DOMAIN library.layers[1] :
               /\ library.layers[1][key].program # 0
               /\ ~HasNullTarget(ProgramOf(library, key))
        /\ ns_r \in library.loaded_modules =>
               /\ ProgramOf(library, Dot(ns_r, n_ping))
                     = <<Execute(n_pong, Target(ns_r, n_pong))>>
               /\ ProgramOf(library, Dot(ns_r, n_pong))
                     = <<Execute(n_ping, Target(ns_r, n_ping))>>
               /\ ProgramOf(library, Dot(ns_r, n_loop))
                     = <<JList(<<Execute(n_loop, Target(ns_r, n_loop))>>)>>

\* The last call was given a source that is one library block, and linking
\* one of its bodies failed.
BlockFailed ==
    /\ Executed /\ IsJoyError(last.exc)
    /\ Len(last.arg) = 1 /\ last.arg[1].typ = "library"
Keys(definitions) == {d.key : d \in Items(definitions)}
\* The table the block's definitions were registered in: the local layer
\* of the view load_joy_library made.
LocalTable == DOMAIN last.left.layers[Len(last.before.layers) + 1]

-----------------------------------------------------------------------------
(* Properties of the struct combinators.                                   *)

\* The struct type the symbol on top of stk names, and whether the values
\* below the symbol fit its fields (v1 deepest, vN just below the symbol).
Named(stk) == library.struct_types[Top(stk).sym]
WellTyped(stk) ==
    /\ stk # nil /\ IsBytes(Top(stk)) /\ Top(stk).sym \in DOMAIN library.struct_types
    /\ Len(stk) >= Named(stk).arity + 1
    /\ \A i \in 1..Named(stk).arity :
           LET expected == _get_expected_python_type_for_field(Named(stk).fields[i])
           IN  expected \in {"object", "Any"}
                 \/ isinstance(stk[Len(stk) - 1 - Named(stk).arity + i], expected)

-----------------------------------------------------------------------------
(* Properties of type declarations.                                        *)

\* A block declaring P was run or loaded while P was registered.
Redeclared ==
    /\ last # None /\ last.call \in {"run", "load"}
    /\ last.arg \in {<<PairBlock>>, <<PairBlock2>>}
    /\ <<"P">> \in DOMAIN last.before.struct_types

\* C15: declaring a struct type whose name is registered succeeds when the
\* declaration has the same fields in the same order, leaving the table of
\* struct types as it was, and fails with JoyTypeDuplicate only when the
\* shapes differ.
DuplicateTypeBySameShape ==
    Redeclared =>
        IF last.arg[1].types[1].fields = last.before.struct_types[<<"P">>].fields
        THEN /\ last.exc = ""
             /\ library.struct_types = last.before.struct_types
        ELSE last.exc = "JoyTypeDuplicate"

-----------------------------------------------------------------------------
(* Properties of validation.                                               *)

\* Validation is on and the precondition of the front operation fails.
Refused ==
    /\ validate /\ program # << >> /\ IsOperation(Head(program))
    /\ ~can_execute(Head(program), stack)

\* C16: with validation on, when the precondition of the front operation
\* fails, the run ends by raising a stack error that carries the stack as the
\* previous step left it; it does not return a stack.
ValidationRaises ==
    Refused =>
        /\ result # "stack"
        /\ LET run == interpret(library, program, stack, validate, stdin)
           IN  run.kind = "raise" /\ run.exc = "JoyStackError" /\ run.stack = stack

-----------------------------------------------------------------------------
(* Properties of failing steps.                                            *)

\* The front item is a native function or a combinator that is dispatched
\* and fails on the stack.
Failing ==
    /\ program # << >> /\ IsOperation(Head(program))
    /\ Head(program).type \in {"FUNCTION", "COMBINATOR"}
    /\ ~(validate /\ ~can_execute(Head(program), stack))
    /\ interpret_step(library, program, stack, stdin).kind = "raise"

\* C17: when a native callable or a combinator fails during a step, the run
\* ends by raising a Joy error carrying the stack at the time of the failure;
\* it returns neither a stack nor an empty result.
StepFailureRaises ==
    /\ result # "none"
    /\ Failing =>
           LET run == interpret(library, program, stack, validate, stdin)
           IN  run.kind = "raise" /\ run.exc \in JoyErrors /\ run.stack = stack

-----------------------------------------------------------------------------
(* Properties of registration.                                             *)

\* The last call registered a function that lacks an annotation.
Unannotated ==
    /\ last # None /\ last.call = "register_operation"
    /\ ~(last.arg.func.returns /\ last.arg.func.params)

-----------------------------------------------------------------------------
(* Properties of the values a native function returns.                     *)

\* The front operation is declared to return two values, returns another
\* number of them, and validation lets it run.
Mismatched ==
    /\ validate /\ program # << >> /\ Head(program) \in {badOp, noisyOp}
    /\ can_execute(Head(program), stack)

\* C19: with validation on, a native function declared to return k >= 2
\* values whose call returns fewer or more causes a stack error: the values
\* are not pushed and the run does not go on; a call returning exactly k
\* values pushes them in order.
OutputsValidated ==
    /\ Mismatched =>
           /\ interpret_iter(library, program, stack, validate, stdin).kind # "continue"
           /\ LET run == interpret(library, program, stack, validate, stdin)
              IN  run.kind = "raise" /\ run.exc = "JoyStackError"
    /\ (validate /\ op \in {badOp, noisyOp}) => stack = prev.stack
    /\ (validate /\ op = goodOp /\ result # "none") =>
           LET a == prev.stack[Len(prev.stack) - 1].int
               b == Top(prev.stack).int
           IN  stack = Below(prev.stack, 2) \o <<JInt(a + b), JInt(a * b)>>

-----------------------------------------------------------------------------
(* Properties of the empty stack.                                          *)

\* The last call returned a stack without items.
ReturnedEmpty ==
    /\ last # None /\ last.call \in {"run", "to_stack", "apply"}
    /\ last.exc = "" /\ last.val # None /\ last.val.stack = << >>

\* C20: there is one empty stack value, nil: constructing a second empty
\* Stack fails, to_stack([]) returns nil, and every call that leaves the
\* stack empty (running an empty program, popping the last item, loading a
\* library block) returns nil and no other empty value.
OneEmptyStack ==
    /\ (last # None /\ last.call = "Stack" /\ last.arg.tail = None /\ last.arg.head = None)
          => last.exc = "ValueError"
    /\ (last # None /\ last.call = "to_stack" /\ last.arg = << >>)
          => last.val = Stacked(nil, NilSingleton)
    /\ ReturnedEmpty => last.val.bottom = NilSingleton

-----------------------------------------------------------------------------
(* Properties of stack marshalling.                                        *)

\* C21: from_stack(to_stack(L)) = L for every list L: to_stack puts the first
\* element of L on top, from_stack lists the stack top first, and to_stack of
\* the empty list is the empty stack.
MarshalRoundTrip ==
    /\ (last # None /\ last.call = "from_stack") =>
           /\ \A values \in Lists :
                  last.arg = to_stack(library, values).val => last.val = values
           /\ last.arg.stack # << >> => last.val[1] = Top(last.arg.stack)
    /\ (last # None /\ last.call = "to_stack") =>
           /\ last.arg = << >> => last.val.stack = nil
           /\ last.arg # << >> => Top(last.val.stack) = last.arg[1]

\* from_stack(to_stack([true, false])) returned [true, false].
MarshalRoundTripWitness ==
    /\ last # None /\ last.call = "from_stack"
    /\ last.arg = to_stack(library, <<JBool(TRUE), JBool(FALSE)>>).val
    /\ last.val = <<JBool(TRUE), JBool(FALSE)>>

-----------------------------------------------------------------------------
(* Properties of run and load.                                             *)

\* The position of the last free-standing term of a source (0: none).
RECURSIVE LastTerm(_, _)
LastTerm(source, k) ==
    IF k = 0 THEN 0
    ELSE IF source[k].typ = "term" THEN k ELSE LastTerm(source, k - 1)

\* C22: run returns the stack left by the last free-standing term executed,
\* whatever follows that term in the source; load executes the same terms
\* and returns no stack; the definitions either call installs stay in the
\* library.
RunReturnsLastTerm ==
    /\ (last # None /\ last.call = "run" /\ last.exc = ""
          /\ LastTerm(last.arg, Len(last.arg)) > 0) =>
           \E val \in BOOLEAN :
               last.val = _execute(last.before,
                                   SubSeq(last.arg, 1, LastTerm(last.arg, Len(last.arg))),
                                   val).val
    /\ (last # None /\ last.call = "load") => last.val = None
    /\ (last # None /\ last.call \in {"run", "load"} /\ last.exc = ""
          /\ \E k \in 1..Len(last.arg) : last.arg[k] = ModuleT) =>
           /\ Dot(ns_t, n_a) \in DOMAIN library.layers[1]
           /\ ns_t \in library.loaded_modules

-----------------------------------------------------------------------------
(* Properties of do_step.                                                  *)

\* do_step repeated on its own results until the queue is empty.
RECURSIVE Stepwise(_, _, _, _)
Stepwise(L, queue, stk, inp) ==
    IF queue = << >> THEN [kind |-> "stack", stack |-> stk, stdin |-> inp, exc |-> ""]
    ELSE LET next(r) ==
                 IF r.kind = "ok" THEN Stepwise(L, r.program, r.stack, r.stdin)
                 ELSE [kind |-> r.kind, stack |-> nil, stdin |-> r.stdin, exc |-> r.exc]
         IN  next(do_step(L, queue, stk, inp))

\* q ends with the items of rest.
EndsWith(q, rest) ==
    /\ Len(q) >= Len(rest)
    /\ SubSeq(q, Len(q) - Len(rest) + 1, Len(q)) = rest

\* C23: do_step on a non-empty queue executes the front item only and
\* returns the new stack and the queue without its front item, with what
\* the step prepended in front; do_step repeated until the queue is empty
\* ends on the stack that running the program in one call returns.
StepwiseEqualsRun ==
    /\ (op # NoOp /\ result = "running") =>
           /\ EndsWith(program, Tail(prev.program))
           /\ ~IsOperation(op) =>
                  stack = Stack(prev.stack, op) /\ program = Tail(prev.program)
           /\ op \in {dupOp, firstOp, divOp, indexOp, goodOp, badOp, noisyOp} =>
                  program = Tail(prev.program)
           /\ interpret(library, prev.program, prev.stack, FALSE, prev.stdin)
                = interpret(library, program, stack, FALSE, stdin)
    /\ result = "running" =>
           LET same(steps) ==
                   steps.kind = "stack" =>
                       interpret(library, program, stack, FALSE, stdin) = steps
           IN  same(Stepwise(library, program, stack, stdin))

\* Two steps of `dip div` on 2 [1]: dip prepended 1 and the saved 2.
StepwiseEqualsRunWitness ==
    /\ result = "running" /\ op = JInt(1)
    /\ prev.program = <<JInt(1), JInt(2), divOp>>
    /\ program = <<JInt(2), divOp>>
    /\ Stepwise(library, program, stack, stdin).kind = "stack"

-----------------------------------------------------------------------------
(* Properties of the linker.                                               *)

\* The last call ran the one term `tokens`.
RanTerm(tokens) ==
    last # None /\ last.call = "run" /\ last.arg = <<TermItem(tokens)>>
\* `name` was a public quotation of the root library before the last call.
WasQuotation(name) ==
    /\ name \in DOMAIN last.before.layers[1]
    /\ last.before.layers[1][name].visibility # "private"
\* The operations link_body makes of `tokens` in the library before the call.
LinkedBefore(tokens) == link_body(last.before, Root, tokens)

-----------------------------------------------------------------------------
(* Properties of native modules without a registry.                        *)

\* The last call ran `2 ns.dup .`.
RanDotted(ns) == RanTerm(<<<<"2">>, Dot(ns, n_dup)>>)

-----------------------------------------------------------------------------
(* The two name conversions of the loader, applied to operator names.      *)

MaxStem == 3
StemChars == {"a", "b", "q", "-"}
\* Joy operator names: letters and dashes, then nothing, `?` or `!`.
JoyNames ==
    {stem \o mark : stem \in SeqsUpTo(StemChars, MaxStem) \ {<< >>},
                    mark \in {<< >>, <<"?">>, <<"!">>}}
\* Host identifiers: those of the Joy names, and one without the prefix.
PyNames == {get_python_name(n) : n \in JoyNames} \cup {<<"a", "_", "b">>}

GetPythonName ==
    /\ calls < MaxCalls
    /\ \E joy_name \in JoyNames :
           Ended("get_python_name", joy_name, Done(library, get_python_name(joy_name)))

GetJoyName ==
    /\ calls < MaxCalls
    /\ \E py_name \in PyNames :
           LET named(r) == Ended("get_joy_name", py_name,
                                 IF r.exc # "" THEN Fail(library, r.exc)
                                 ELSE Done(library, r.val))
           IN  named(get_joy_name(py_name))

NextNames == GetPythonName \/ GetJoyName

SpecNames == InitRuntime /\ [][NextNames]_vars

\* C26: get_joy_name strips `op_`, maps only a trailing `_q` to `?`, only a
\* trailing `_b` to `!` and every other underscore to a dash, so that
\* get_joy_name(get_python_name(n)) = n for every Joy operator name n of
\* letters and dashes with an optional trailing `?` or `!`.
JoyNameBijection ==
    \A n \in JoyNames :
        (/\ last # None /\ last.call = "get_joy_name"
         /\ last.arg = get_python_name(n)) =>
            last.exc = "" /\ last.val = n

-----------------------------------------------------------------------------
(* Properties of the validator on combinators.                             *)

\* The front of the program is the combinator o and validation is on.
Validating(o) == validate /\ program # << >> /\ Head(program) = o

\* C27: the validator accepts `i` exactly when the top of the stack is a
\* quotation, and `dip` exactly when the top is a quotation and a second
\* value lies below it: `dip` on a stack of one quotation is rejected.
CombinatorsGuarded ==
    /\ Validating(iOp) =>
           (can_execute(iOp, stack) <=> (stack # nil /\ IsList(stack[Len(stack)])))
    /\ Validating(dipOp) =>
           (can_execute(dipOp, stack)
                <=> (Len(stack) >= 2 /\ IsList(stack[Len(stack)])))

-----------------------------------------------------------------------------
(* Native functions of each arity, one step on stacks of every depth.      *)

MaxDepth == 3
swapOp == Function(<<"s", "w", "a", "p">>, "op_swap")
popOp == Function(<<"p", "o", "p">>, "op_pop")
dictNewOp == Function(<<"d", "i", "c", "t", "-", "n", "e", "w">>, "op_dict_new")
dictStoreOp ==
    Function(<<"d", "i", "c", "t", "-", "s", "t", "o", "r", "e">>, "op_dict_store")
FrameOps == {swapOp, dupOp, popOp, dictNewOp, dictStoreOp}
FrameValues == {JInt(1), JInt(2), JSym(<<"k">>), JDict(EmptyDict)}
FrameStacks == SeqsUpTo(FrameValues, MaxDepth)
FramePrograms == {<<front>> \o rest : front \in FrameOps, rest \in {<< >>, <<dupOp>>}}

InitFrame ==
    /\ program \in FramePrograms
    /\ stack \in FrameStacks
    /\ validate \in BOOLEAN
    /\ stdin = 0
    /\ heap = << >>
    /\ op = NoOp
    /\ prev = [stack |-> stack, program |-> program, stdin |-> stdin]
    /\ result = "running"
    /\ library = Builtins
    /\ last = None
    /\ calls = 0

NextFrame == IterContinue \/ IterBreak \/ IterNone \/ Return

SpecFrame == InitFrame /\ [][NextFrame]_vars

\* The last step taken was the operation o, started on prev.stack.
Stepped(o) == op = o /\ prev.program # << >> /\ Head(prev.program) = o

\* C28: `swap` on push(B, push(A, S)) yields push(A, push(B, S)): the two
\* top values exchange places and S is unchanged.
SwapLaw ==
    (Stepped(swapOp) /\ Len(prev.stack) >= 2) =>
        LET n == Len(prev.stack)
            S == SubSeq(prev.stack, 1, n - 2)
            A == prev.stack[n - 1]
            B == prev.stack[n]
        IN  result # "none" /\ stack = Stack(Stack(S, B), A)

\* `swap` has run on three values, the two on top different.
SwapLawWitness ==
    /\ Stepped(swapOp) /\ result = "stack" /\ Len(prev.stack) = 3
    /\ prev.stack[2] # prev.stack[3] /\ stack[3] = prev.stack[2]

\* C29: `dup` on push(V, S) yields push(V, push(V, S)): the top value is
\* pushed a second time and S is unchanged.
DupLaw ==
    (Stepped(dupOp) /\ Len(prev.stack) >= 1) =>
        LET n == Len(prev.stack)
            S == SubSeq(prev.stack, 1, n - 1)
            V == prev.stack[n]
        IN  result # "none" /\ stack = Stack(Stack(S, V), V)

\* `dup` has run on a stack of two values.
DupLawWitness ==
    /\ Stepped(dupOp) /\ result = "stack"
    /\ Len(prev.stack) = 2 /\ Len(stack) = 3 /\ stack[3] = prev.stack[2]

\* C30: a native function of arity n and valency m on a stack of depth >= n
\* takes exactly the top n values, in bottom-to-top order, pushes its m
\* results in order and leaves the cells below unchanged, so the depth
\* changes by m - n; `pop` on push(V, S) yields S.
WrapperFrame ==
    \A o \in FrameOps :
        (Stepped(o) /\ Len(prev.stack) >= StackEffects(o.fn).arity) =>
            LET n == StackEffects(o.fn).arity
                m == StackEffects(o.fn).valency
                depth == Len(prev.stack)
                base == SubSeq(prev.stack, 1, depth - n)
                args == SubSeq(prev.stack, depth - n + 1, depth)
                called(r) ==
                    IF r.exc # "" THEN result = "none" /\ stack = prev.stack
                    ELSE /\ result # "none"
                         /\ Len(r.res) = m
                         /\ stack = base \o r.res
                         /\ Len(stack) = depth + m - n
                         /\ o = popOp => stack = base
            IN  called(native(o.fn, args))

\* dict-store has taken three values off a stack of three and left the
\* dictionary with the key bound to the value that was on top.
WrapperFrameWitness ==
    /\ Stepped(dictStoreOp) /\ result = "stack" /\ Len(prev.stack) = 3
    /\ stack = <<JDict(dict_set(EmptyDict, JSym(<<"k">>), JInt(2)))>>

-----------------------------------------------------------------------------
(* `step` over lists: the dispatches of one run counted.                   *)

\* Steps followed when a run is traced.
MaxTrace == 40
\* Lists stepped over: of values, and the quotations [1 dup] and
\* [[] [] step] as data.
OverLists ==
    {<< >>, <<JInt(1)>>, <<JInt(1), JInt(2)>>, <<JInt(1), JInt(2), JInt(1)>>,
     <<JInt(1), dupOp>>, <<QEmpty, QEmpty, stepOp>>}
OverQuotations == {QEmpty, QDup, QPush, QAssert}
OverStacks ==
    {base \o <<JList(values), q>> : base \in {nil, <<JInt(2)>>},
                                     values \in OverLists, q \in OverQuotations}
OverPrograms == {<<stepOp>> \o rest : rest \in SeqsUpTo(Waiting, 1)}

InitOver ==
    /\ program \in OverPrograms
    /\ stack \in OverStacks
    /\ validate \in BOOLEAN
    /\ stdin = 0
    /\ heap = << >>
    /\ op = NoOp
    /\ prev = [stack |-> stack, program |-> program, stdin |-> stdin]
    /\ result = "running"
    /\ library = Builtins
    /\ last = None
    /\ calls = 0

NextOver == IterContinue \/ IterBreak \/ IterNone \/ Return

SpecOver == InitOver /\ [][NextOver]_vars

\* The loop of interpret followed from (prg, stk) until the queue is down to
\* `waiting` items: how it ended, the queue then, and how many times `step`
\* was dispatched.
RECURSIVE Traced(_, _, _, _, _, _)
Traced(L, prg, stk, waiting, fuel, steps) ==
    IF Len(prg) <= waiting THEN [kind |-> "done", program |-> prg, steps |-> steps]
    ELSE IF fuel = 0 THEN [kind |-> "fuel", program |-> prg, steps |-> steps]
    ELSE LET next(turn) ==
                 IF turn.kind = "continue" THEN
                     Traced(L, turn.program, turn.stack, waiting, fuel - 1,
                            steps + (IF Head(prg) = stepOp THEN 1 ELSE 0))
                 ELSE [kind |-> turn.kind, program |-> prg, steps |-> steps]
         IN  next(interpret_iter(L, prg, stk, validate, stdin))

\* `step` is at the front, on a list and a quotation.
StepAhead ==
    /\ result = "running" /\ program # << >> /\ Head(program) = stepOp
    /\ Len(stack) >= 2 /\ IsList(stack[Len(stack)]) /\ IsList(stack[Len(stack) - 1])

\* C31: `step` over an n-element list, when the run of Q comes to its end,
\* is dispatched n+1 times in all, each dispatch but the last takes one
\* element off the list, and afterwards the queue holds the items that were
\* waiting behind the `step`.
StepOverList ==
    /\ StepAhead =>
           LET n == Len(stack[Len(stack) - 1].list)
               ended(t) ==
                   t.kind = "done" => t.steps = n + 1 /\ t.program = Tail(program)
           IN  ended(Traced(library, program, stack, Len(program) - 1, MaxTrace, 0))
    /\ (Stepped(stepOp) /\ result # "none" /\ prev.stack[Len(prev.stack) - 1].list # << >>) =>
           /\ program[Len(program) - Len(prev.program) + 1] = stepOp
           /\ stack = SubSeq(prev.stack, 1, Len(prev.stack) - 2)
           /\ program[Len(program) - Len(prev.program) - 1]
                = JList(Tail(prev.stack[Len(prev.stack) - 1].list))

-----------------------------------------------------------------------------
(* Loads of blocks of every kind of definition, and what they leave in the *)
(* quotation table.                                                        *)

\* `( a -- b )`
Effect == [inputs |-> <<<<"a">>>>, outputs |-> <<<<"b">>>>]
n_F == <<"F">>
\* `MODULE r PUBLIC p == 2 ; q == zz ; END.`: the second body does not link.
BlockBad ==
    LibraryItem(ns_r, << >>, <<Definition(n_p, <<<<"2">>>>), Definition(n_q, <<n_zz>>)>>)
\* `MODULE s PUBLIC F :: ( a -- b ) ; END.`, and the same with a body that
\* does not link.
BlockTyped == TypesItem(ns_s, <<QuotationType(n_F, Effect)>>)
BlockTypedBad ==
    [LibraryItem(ns_s, << >>, <<Definition(n_q, <<n_zz>>)>>)
        EXCEPT !.types = <<QuotationType(n_F, Effect)>>]
DefSources ==
    {<<ModuleT>>, <<ModuleR(<<Ping, Pong>>)>>, <<BlockBad>>, <<PairBlock>>,
     <<BlockTyped>>, <<BlockTypedBad>>, <<ModuleP(ns_b)>>,
     <<TermItem(<<n_F>>)>>, <<TermItem(<<Dot(ns_t, n_a)>>)>>}

RunDefs ==
    /\ calls < MaxCalls
    /\ \E source \in DefSources :
           Ended("run", source, _execute(library, source, FALSE))

LoadDefs ==
    /\ calls < MaxCalls
    /\ \E source \in DefSources :
           Ended("load", source, Dropped(_execute(library, source, FALSE)))

NextDefs == RunDefs \/ LoadDefs

SpecDefs == InitRuntime /\ [][NextDefs]_vars

\* C32: when no link pass is in progress every quotation of the library's
\* quotation table has a program: no placeholder survives the end of a
\* load, successful or failed, whatever definitions the block held (word
\* definitions, struct types, quotation types).
NoNullProgram ==
    \A key \in DOMAIN library.layers[1] : library.layers[1][key].program # 0

-----------------------------------------------------------------------------
(* Definitions linked into an overlay of the runtime's library.            *)

\* `h == 2 ; q == h dup`, `ping == pong ; pong == ping`,
\* `p == t.a ; q == zz` (the second body does not link).
OverlayDefinitions ==
    {<<Definition(n_h, <<<<"2">>>>), Definition(n_q, <<n_h, n_dup>>)>>,
     <<Ping, Pong>>,
     <<Definition(n_p, <<Dot(ns_t, n_a)>>), Definition(n_q, <<n_zz>>)>>,
     <<Definition(n_F, <<<<"2">>>>)>>}

\* library.with_overlay(), then _populate_joy_definitions on the overlay.
Populate ==
    /\ calls < MaxCalls
    /\ \E definitions \in OverlayDefinitions :
           LET overlaid(o) ==
                   Ended("_populate_joy_definitions",
                         [definitions |-> definitions, view |-> o.view],
                         _populate_joy_definitions(o.lib, o.view, definitions,
                                                   "local", << >>))
           IN  overlaid(with_overlay(library, Root))

NextOverlay == RunDefs \/ Populate

SpecOverlay == InitRuntime /\ [][NextOverlay]_vars

Populated == last # None /\ last.call = "_populate_joy_definitions"

\* C33: registering or removing a quotation through an overlay changes the
\* overlay's local layer only: the parent's table is as before, lookups
\* through the overlay find local entries first and the parent's otherwise,
\* and lookups through the parent never find an entry of the overlay.
OverlayIsLocal ==
    Populated =>
        LET view == last.arg.view
            left == last.left
            local == left.layers[view[1]]
            parent == left.layers[1]
        IN  /\ parent = last.before.layers[1]
            /\ \A key \in DOMAIN local :
                   /\ get_quotation(left, view, key).val = local[key]
                   /\ get_quotation(left, Root, key).val = None
            /\ \A key \in DOMAIN parent \ DOMAIN local :
                   get_quotation(left, view, key).val = get_quotation(left, Root, key).val
            /\ last.exc = "" => Keys(last.arg.definitions) = DOMAIN local
            /\ IsJoyError(last.exc) => DOMAIN local = {}

\* Definitions were linked into an overlay of a library that holds t.a, and
\* others were removed from one when a body did not link.
OverlayIsLocalWitness ==
    /\ Populated /\ last.exc = "JoyNameError"
    /\ Dot(ns_t, n_a) \in DOMAIN last.before.layers[1]
    /\ n_p \in Keys(last.arg.definitions)

-----------------------------------------------------------------------------
(* The interpreter on list objects.  Here `heap` holds every Python list   *)
(* and the deque of the run by identity, a list on the stack or in a body  *)
(* is a reference into it, and `program` is the identity of the deque:     *)
(* popleft, appendleft and extendleft change the deque in place.           *)

JRef(id) == [ref |-> id]
IsRef(x) == "ref" \in DOMAIN x

\* An interpret that drains the list it is given.
deque_shared(H, prg) == [heap |-> H, id |-> prg]
\* `program = collections.deque(program)`: a new object with the items.
deque(H, prg) == [heap |-> Append(H, H[prg]), id |-> Len(H) + 1]

\* interpret_step and the combinators it calls; d is the deque.  The
\* outcome is the heap, the stack and whether the step raised.
Stepped_in_place(H, stk) == [heap |-> H, stack |-> stk, exc |-> ""]
Raised_in_place(H, stk, e) == [heap |-> H, stack |-> stk, exc |-> e]
interpret_step_in_place(H, d, stk) ==
    LET o == Head(H[d])
        H1 == [H EXCEPT ![d] = popleft(@)]
    IN  IF ~IsOperation(o) THEN Stepped_in_place(H1, Stack(stk, o))
        ELSE CASE o.type = "FUNCTION" ->
                    LET called(w) ==
                            IF w.exc # "" THEN Raised_in_place(H1, stk, w.exc)
                            ELSE Stepped_in_place(H1, w.stack)
                    IN  called(wrapper(o.fn, stk))
               [] o.type = "EXECUTE" ->
                    Stepped_in_place([H1 EXCEPT ![d] = extendleft(@, reversed(H1[o.ptr]))], stk)
               [] o.type = "COMBINATOR" /\ o.comb = "comb_i" ->
                    IF stk = nil THEN Raised_in_place(H1, stk, "JoyStackError")
                    ELSE LET tail == SubSeq(stk, 1, Len(stk) - 1)
                             head == stk[Len(stk)]
                         IN  IF ~IsRef(head) THEN Raised_in_place(H1, stk, "JoyStackError")
                             ELSE Stepped_in_place(
                                      [H1 EXCEPT ![d] = extendleft(@, reversed(H1[head.ref]))],
                                      tail)
               [] o.type = "COMBINATOR" /\ o.comb = "comb_dip" ->
                    IF Len(stk) < 2 THEN Raised_in_place(H1, stk, "JoyStackError")
                    ELSE LET quotation == stk[Len(stk)]
                             item == stk[Len(stk) - 1]
                             tail == SubSeq(stk, 1, Len(stk) - 2)
                         IN  IF ~IsRef(quotation) THEN Raised_in_place(H1, stk, "JoyStackError")
                             ELSE Stepped_in_place(
                                      [H1 EXCEPT ![d] =
                                          extendleft(appendleft(@, item),
                                                     reversed(H1[quotation.ref]))],
                                      tail)
               [] o.type = "COMBINATOR" /\ o.comb = "comb_step" ->
                    IF Len(stk) < 2 THEN Raised_in_place(H1, stk, "JoyStackError")
                    ELSE LET prg == stk[Len(stk)]
                             values == stk[Len(stk) - 1]
                             tail == SubSeq(stk, 1, Len(stk) - 2)
                         IN  IF ~IsRef(values) \/ ~IsRef(prg) THEN
                                 Raised_in_place(H1, stk, "JoyStackError")
                             ELSE IF Len(H1[values.ref]) = 0 THEN Stepped_in_place(H1, tail)
                             ELSE \* values[1:] is a new list
                                  LET H2 == Append(H1, Tail(H1[values.ref]))
                                      rest == JRef(Len(H2))
                                  IN  Stepped_in_place(
                                          [H2 EXCEPT ![d] =
                                              extendleft(@,
                                                  reversed(<<H1[values.ref][1]>> \o H1[prg.ref]
                                                           \o <<rest, prg, o>>))],
                                          tail)

\* The lists a runtime holds before a run: the body of `w == 2 dup`, the
\* list [1 2], the quotations [dup] and [w], and then the linked term.
ObjWord == Execute(<<"w">>, 1)
ObjLists == <<<<JInt(2), dupOp>>, <<JInt(1), JInt(2)>>, <<dupOp>>, <<ObjWord>>>>
ObjTerms ==
    {<<ObjWord, ObjWord>>,
     <<JRef(2), JRef(3), stepOp>>,
     <<JRef(2), JRef(4), stepOp, JRef(2)>>,
     <<JRef(2), JRef(2), stepOp, ObjWord>>,
     <<JRef(3), iOp, JRef(3), iOp>>,
     <<JRef(4), iOp, ObjWord>>,
     <<JInt(1), JRef(4), dipOp>>,
     <<JRef(2), JRef(3), dipOp, JRef(3), iOp>>,
     <<JRef(3), stepOp>>}
ObjStacks == {nil, <<JInt(2)>>, <<JRef(2)>>}
\* The identity of the linked term.
ObjTerm == Len(ObjLists) + 1

\* interpret(prg, stack): the deque is made, nothing has run.
InitDrain ==
    /\ \E term \in ObjTerms :
           LET made(q) == heap = q.heap /\ program = q.id
           IN  made(deque(Append(ObjLists, term), ObjTerm))
    /\ stack \in ObjStacks
    /\ validate = FALSE
    /\ stdin = 0
    /\ op = NoOp
    /\ prev = [stack |-> stack, program |-> << >>, stdin |-> 0]
    /\ result = "running"
    /\ library = Builtins
    /\ last = None
    /\ calls = 0

\* One turn of interpret's loop.
Drain ==
    /\ result = "running" /\ heap[program] # << >>
    /\ LET turn(r) ==
               /\ heap' = r.heap
               /\ stack' = r.stack
               /\ result' = IF r.exc = "" THEN "running" ELSE "none"
       IN  turn(interpret_step_in_place(heap, program, stack))
    /\ op' = Head(heap[program])
    /\ prev' = [stack |-> stack, program |-> heap[program], stdin |-> stdin]
    /\ UNCHANGED <<program, validate, stdin, library, last, calls>>

\* The deque is empty: interpret returns the stack.
DrainReturn ==
    /\ result = "running" /\ heap[program] = << >>
    /\ result' = "stack"
    /\ UNCHANGED <<program, stack, validate, op, prev, stdin, heap, library, last, calls>>

NextDrain == Drain \/ DrainReturn

SpecDrain == InitDrain /\ [][NextDrain]_vars

\* C34: a run modifies no linked body and no list value: the interpreter
\* drains its own copy of the program, and `i`, `dip`, `step` and Execute
\* read the lists they expand: a word executed twice runs the same items
\* both times and a list stepped over is intact afterwards.
ListsIntact ==
    /\ \A id \in 1..Len(ObjLists) : heap[id] = ObjLists[id]
    /\ heap[ObjTerm] \in ObjTerms
    /\ (op = ObjWord /\ result = "running") =>
           heap[program] = ObjLists[1] \o Tail(prev.program)

\* `w w` has run to its end: the second `w` has put 2 and dup on the stack
\* as the first did.
ListsIntactWitness ==
    /\ result = "stack" /\ heap[ObjTerm] = <<ObjWord, ObjWord>>
    /\ stack = <<JInt(2), JInt(2), JInt(2), JInt(2)>>

-----------------------------------------------------------------------------
(* Lookups through the root library and through an overlay of it.          *)

\* library.with_overlay().get_quotation(name)
GetQuotationOverlay ==
    /\ calls < MaxCalls
    /\ \E name \in Names :
           LET overlaid(o) ==
                   Ended("overlay.get_quotation", name, get_quotation(o.lib, o.view, name))
           IN  overlaid(with_overlay(library, Root))

NextJoy == GetQuotation \/ GetQuotationOverlay \/ GetFunction

SpecJoy == InitRuntime /\ [][NextJoy]_vars

\* The Joy loader has loaded ns.joy and ns is marked loaded.
JoyLoaded(ns) ==
    /\ ns \in DOMAIN JoyFiles /\ ns \in library.loaded_modules
    /\ Count(library, <<"_joy_loader", ns>>) >= 1

\* C35: when ns is marked loaded because its Joy source module was loaded,
\* every public definition of the module resolves as `ns.name` through the
\* runtime's root library, also when the lookup that loaded it was made
\* through an overlay.
JoyLoadedResolvable ==
    \A ns \in DOMAIN JoyFiles :
        JoyLoaded(ns) =>
            \A k \in 1..Len(JoyFiles[ns]) :
                \A key \in Keys(JoyFiles[ns][k].public) :
                    get_quotation(library, Root, Dot(ns, key)).val # None

-----------------------------------------------------------------------------
(* The loaded marker over lookups and explicit loads.                      *)

NextMarker == GetQuotation \/ GetFunction \/ GetFactory \/ LoadDefs

SpecMarker == InitRuntime /\ [][NextMarker]_vars

Loaders(ns) == {<<"_py_loader", ns>>, <<"_joy_loader", ns>>}

\* C36: once the native loader, the Joy loader or an explicit load of a
\* `MODULE ns` block has marked ns loaded, no later call invokes either
\* loader for ns: definitions of the other kind are never loaded lazily.
MarkerShared ==
    [][\A ns \in library.loaded_modules :
          \A e \in Loaders(ns) : Count(library', e) = Count(library, e)]_vars

\* b was marked by an explicit load of `MODULE b`, and a later lookup of
\* b.dup found no function: the native b was never imported.
MarkerSharedWitness ==
    /\ last # None /\ last.call = "get_function" /\ last.arg = Dot(ns_b, n_dup)
    /\ last.exc = "JoyNameError"
    /\ ns_b \in last.before.loaded_modules
    /\ \A e \in Loaders(ns_b) : Count(library, e) = 0

-----------------------------------------------------------------------------
(* Runtime.apply with operations of every type.                            *)

\* The first linked body of the library, once a load has made one.
FirstBody == Execute(n_h, 1)
Appliable == {iOp, dipOp, dupOp, FirstBody, JStr(n_i), JStr(n_dip), JStr(n_dup)}
AppliedTo == {<< >>, <<QPush>>, <<JInt(1), QPush>>, <<JInt(2), JInt(1), QDup>>, <<JInt(1)>>}

ApplyOperation ==
    /\ calls < MaxCalls
    /\ \E o \in Appliable, values \in AppliedTo :
           /\ o = FirstBody => Len(library.heap) >= 1
           /\ Ended("apply", [op |-> o, stack |-> values],
                    apply(library, o, Stacked(values, NilSingleton)))

NextApply == LoadEmptying \/ ApplyOperation

SpecApply == InitRuntime /\ [][NextApply]_vars

Applied(o) == last # None /\ last.call = "apply" /\ last.arg.op = o

\* C37: apply takes one step and drops the queue the step returns: applying
\* the combinators `i` and `dip` pops their arguments and runs nothing,
\* applying an Execute operation returns the stack as it was, and the name
\* of a combinator is not found, names being looked up as functions.
ApplyOneStep ==
    /\ (Applied(iOp) /\ last.exc = "") =>
           /\ last.val # None
           /\ last.val.stack = SubSeq(last.arg.stack, 1, Len(last.arg.stack) - 1)
    /\ (Applied(iOp) /\ last.arg.stack # << >>
           /\ IsList(last.arg.stack[Len(last.arg.stack)])) => last.exc = ""
    /\ (Applied(dipOp) /\ last.exc = "") =>
           /\ last.val # None
           /\ last.val.stack = SubSeq(last.arg.stack, 1, Len(last.arg.stack) - 2)
    /\ (Applied(dipOp) /\ Len(last.arg.stack) >= 2
           /\ IsList(last.arg.stack[Len(last.arg.stack)])) => last.exc = ""
    /\ Applied(FirstBody) =>
           last.exc = "" /\ last.val # None /\ last.val.stack = last.arg.stack
    /\ (Applied(JStr(n_i)) \/ Applied(JStr(n_dip))) => last.exc = "JoyNameError"
    /\ (last # None /\ last.call = "apply") => library = last.before

\* dip was applied to 2 1 [dup]: 1 and [dup] are gone and dup has not run.
ApplyOneStepWitness ==
    /\ Applied(dipOp) /\ last.arg.stack = <<JInt(2), JInt(1), QDup>>
    /\ last.exc = "" /\ last.val.stack = <<JInt(2)>>

-----------------------------------------------------------------------------
(* Runtime.run with a stack argument.                                      *)

\* A run that starts a one-term source on the stack it is given.
run_on_stack(L, source, stk, val) ==
    IF Len(source) = 1 /\ source[1].typ = "term" THEN
        LET ran(L2, r) ==
                IF r.kind = "exit" THEN Fail(L2, "SystemExit")
                ELSE Done(L2, IF r.kind = "stack" THEN AStack(r.stack) ELSE None)
            linked(r) ==
                IF r.exc # "" THEN r
                ELSE ran(r.lib, interpret(r.lib, r.val, stk.stack, val, 0))
        IN  linked(link_body(L, Root, source[1].tokens))
    ELSE _execute(L, source, val)

\* Runtime.run(program, stack, validate=...)
run(L, source, stk, val) == _execute(L, source, val)

\* `dup .`, `2 .`, `2 . dup .`, `2 dup . dup .`, `2 . .`, a library block
\* and `dup .`, `2 .` and a library block.
CarrySources ==
    {<<TermItem(<<n_dup>>)>>,
     <<TermItem(<<<<"2">>>>)>>,
     <<TermItem(<<<<"2">>>>), TermItem(<<n_dup>>)>>,
     <<TermItem(<<<<"2">>, n_dup>>), TermItem(<<n_dup>>)>>,
     <<TermItem(<<<<"2">>>>), TermItem(<< >>)>>,
     <<ModuleT, TermItem(<<n_dup>>)>>,
     <<TermItem(<<<<"2">>>>), ModuleT>>}
CarryStacks == {nil, <<JInt(1)>>, <<JInt(1), JInt(2)>>}

RunOnStack ==
    /\ calls < MaxCalls
    /\ \E source \in CarrySources, values \in CarryStacks :
           Ended("run", [source |-> source, stack |-> values],
                 run(library, source, Stacked(values, NilSingleton), FALSE))

NextCarry == RunOnStack \/ LoadEmptying

SpecCarry == InitRuntime /\ [][NextCarry]_vars

RanOnStack == last # None /\ last.call = "run" /\ "stack" \in DOMAIN last.arg

\* C38: run ignores its stack argument and no stack carries over between
\* terms: every term of a source starts on an empty stack, whatever the
\* term or library block before it left and whatever earlier calls left:
\* the call ends as its last item alone ends after the items before it.
NoCarryOver ==
    RanOnStack =>
        LET source == last.arg.source
            n == Len(source)
            alone(r) == last.exc = r.exc /\ last.val = r.val
            after(before) ==
                before.exc = "" => alone(_execute(before.lib, <<source[n]>>, FALSE))
        IN  /\ after(_execute(last.before, SubSeq(source, 1, n - 1), FALSE))
            /\ source[n] = TermItem(<<n_dup>>) => last.exc = "" /\ last.val = None
            /\ source[n] = TermItem(<< >>) => last.val = AStack(nil)

\* `dup .` was run with the stack 1 2 after an earlier call: dup found
\* nothing to copy.
NoCarryOverWitness ==
    /\ RanOnStack /\ last.arg.source = <<TermItem(<<n_dup>>)>>
    /\ last.arg.stack = <<JInt(1), JInt(2)>>
    /\ calls >= 2 /\ last.val = None

-----------------------------------------------------------------------------
(* Factories.                                                              *)

n_new == <<"n", "e", "w">>
RP == Dot(ns_r, n_p)

\* Runtime.register_factory
RegisterFactory ==
    /\ calls < MaxCalls
    /\ Ended("register_factory", n_new,
             Done([library EXCEPT !.factories = dict_set(@, n_new, Factory(n_new))], None))

\* `MODULE r PUBLIC p == new ; END.`, `r.p .`, `r.p r.p .`, `new new .`,
\* `@new .`, the module and `r.p r.p .`, `new . new .`, `r.p . r.p .`,
\* `new r.p .`
ModuleNew == ModuleR(<<Definition(n_p, <<n_new>>)>>)
FactorySources ==
    {<<ModuleNew>>,
     <<TermItem(<<RP>>)>>,
     <<TermItem(<<RP, RP>>)>>,
     <<TermItem(<<n_new, n_new>>)>>,
     <<TermItem(<<<<"@">> \o n_new>>)>>,
     <<ModuleNew, TermItem(<<RP, RP>>)>>,
     <<TermItem(<<n_new>>), TermItem(<<n_new>>)>>,
     <<TermItem(<<RP>>), TermItem(<<RP>>)>>,
     <<TermItem(<<n_new, RP>>)>>}

RunFactory ==
    /\ calls < MaxCalls
    /\ \E source \in FactorySources :
           Ended("run", source, _execute(library, source, FALSE))

NextFactory == RegisterFactory \/ RunFactory

SpecFactory == InitRuntime /\ [][NextFactory]_vars

\* The occurrences of the factory's name in the terms and bodies of a source.
Mentions(tokens) ==
    Cardinality({k \in DOMAIN tokens : str_lstrip(tokens[k], "@") = n_new})
RECURSIVE Occurrences(_)
Occurrences(source) ==
    IF source = << >> THEN 0
    ELSE Occurrences(Tail(source))
           + (IF Head(source).typ = "term" THEN Mentions(Head(source).tokens)
              ELSE Mentions(Head(source).public[1].tokens))

Invocations(L) == Count(L, <<"factory", n_new>>)
RanFactory == last # None /\ last.call = "run" /\ last.exc = ""

\* The object in the linked body of r.p.
BodyObject(L) == L.heap[L.layers[1][RP].program][1]

\* C39: a factory is invoked once per occurrence of its name, at link time:
\* a run that succeeds invokes it as often as its source mentions it, and
\* executing the linked body of r.p, once or twice, pushes the object
\* that is in the body.
FactoryOncePerOccurrence ==
    RanFactory =>
        /\ Invocations(last.left) = Invocations(last.before) + Occurrences(last.arg)
        /\ \A k \in DOMAIN last.arg :
               (last.arg[k] = TermItem(<<RP, RP>>) /\ k = Len(last.arg)) =>
                   last.val = AStack(<<BodyObject(library), BodyObject(library)>>)
        /\ last.arg \in {<<TermItem(<<RP>>)>>, <<TermItem(<<RP>>), TermItem(<<RP>>)>>} =>
               last.val = AStack(<<BodyObject(library)>>)
        /\ last.arg = <<TermItem(<<n_new, n_new>>)>> =>
               /\ last.val # None
               /\ last.val.stack[1] # last.val.stack[2]

\* `r.p r.p .` ran in a call of its own, after the module was loaded: both
\* values are the object of the linking, and the factory was not invoked.
FactoryOncePerOccurrenceWitness ==
    /\ RanFactory /\ last.arg = <<TermItem(<<RP, RP>>)>>
    /\ Invocations(last.before) = 1 /\ Invocations(library) = 1
    /\ last.val = AStack(<<JObject(n_new, 1), JObject(n_new, 1)>>)

-----------------------------------------------------------------------------
(* A native load that fails part-way.                                      *)

PartialNames ==
    {Dot(ns, name) : ns \in {ns_c, ns_d, ns_m}, name \in {n_dup, n_first}}

GetPartial ==
    /\ calls < MaxCalls
    /\ \E name \in PartialNames :
           Ended("get_function", name, get_function(library, name))

NextPartial == GetPartial \/ RunLinked

SpecPartial == InitRuntime /\ [][NextPartial]_vars

\* C40: a native load that fails part-way leaves no function of the
\* namespace registered and the namespace not marked loaded: after a failed
\* lookup of a name of c or d the function table is as it was before.
FailedLoadLeavesNothing ==
    \A ns \in {ns_c, ns_d} :
        (/\ last # None /\ last.call = "get_function" /\ Namespace(last.arg) = ns
         /\ last.exc # "") =>
            /\ library.functions = last.before.functions
            /\ ns \notin library.loaded_modules
            /\ \A name \in DOMAIN library.functions : Namespace(name) # ns
====
